---- MODULE Spec2Model ----
(***************************************************************************)
(* Model of the AquaDepth sensor data processing pipeline                  *)
(* (src/src/lib/sensorProcessing.ts): the MovingAverageFilter class, the   *)
(* statistics helpers, processSensorData with its calibration lookup, and  *)
(* the sensor_calibration table it reads.                                  *)
(*                                                                         *)
(* JavaScript numbers are modelled as exact rationals extended with the    *)
(* IEEE-754 special values NaN, +Infinity and -Infinity, so that a         *)
(* division by zero yields what the engine yields instead of an error.     *)
(* Rounding and overflow of finite values are not modelled.                *)
(***************************************************************************)
EXTENDS Integers, Sequences, FiniteSets, TLC

----------------------------------------------------------------------------
(* JavaScript number arithmetic                                            *)

RECURSIVE GCD(_, _)
GCD(a, b) == IF b = 0 THEN a ELSE GCD(b, a % b)

IAbs(i) == IF i < 0 THEN -i ELSE i

NaN == [k |-> "nan", n |-> 0, d |-> 1]

PosInf == [k |-> "inf", n |-> 1, d |-> 1]

NegInf == [k |-> "inf", n |-> -1, d |-> 1]

\* The finite number n/d (d # 0), in lowest terms with a positive denominator.
Fin(n, d) ==
    LET g == GCD(IAbs(n), IAbs(d))
        s == IF d < 0 THEN -1 ELSE 1
    IN  [k |-> "fin", n |-> (s * n) \div g, d |-> IAbs(d) \div g]

Num(i) == Fin(i, 1)

IsNaN(x) == x.k = "nan"

IsFinite(x) == x.k = "fin"

\* -1, 0 or 1 for a number that is not NaN (an infinity carries its sign in n).
Sign(x) == IF x.n < 0 THEN -1 ELSE IF x.n > 0 THEN 1 ELSE 0

\* x + y
Add(x, y) ==
    IF IsNaN(x) \/ IsNaN(y) THEN NaN
    ELSE IF x.k = "inf" /\ y.k = "inf" THEN (IF x.n = y.n THEN x ELSE NaN)
    ELSE IF x.k = "inf" THEN x
    ELSE IF y.k = "inf" THEN y
    ELSE LET g == GCD(x.d, y.d)
         IN  Fin(x.n * (y.d \div g) + y.n * (x.d \div g), (x.d \div g) * y.d)

\* -x
Neg(x) == IF IsNaN(x) THEN NaN ELSE [x EXCEPT !.n = -x.n]

\* x - y
Sub(x, y) == Add(x, Neg(y))

\* x * y
Mul(x, y) ==
    IF IsNaN(x) \/ IsNaN(y) THEN NaN
    ELSE IF x.k = "inf" \/ y.k = "inf"
         THEN (IF Sign(x) * Sign(y) = 0 THEN NaN
               ELSE IF Sign(x) * Sign(y) > 0 THEN PosInf ELSE NegInf)
    ELSE Fin(x.n * y.n, x.d * y.d)

\* x / y: a division by zero yields NaN (0/0) or an infinity, never an error.
Div(x, y) ==
    IF IsNaN(x) \/ IsNaN(y) THEN NaN
    ELSE IF x.k = "inf" /\ y.k = "inf" THEN NaN
    ELSE IF y.k = "inf" THEN Num(0)
    ELSE IF y.n = 0
         THEN (IF Sign(x) = 0 THEN NaN
               ELSE IF Sign(x) > 0 THEN PosInf ELSE NegInf)
    ELSE IF x.k = "inf"
         THEN (IF Sign(x) * Sign(y) > 0 THEN PosInf ELSE NegInf)
    ELSE Fin(x.n * y.d, x.d * y.n)

\* Math.abs(x)
Abs(x) == IF IsNaN(x) THEN NaN ELSE [x EXCEPT !.n = IAbs(x.n)]

\* x < y: false as soon as one side is NaN.
Lt(x, y) ==
    /\ ~IsNaN(x)
    /\ ~IsNaN(y)
    /\ IF x.k = "inf" \/ y.k = "inf"
       THEN \/ x.k = "inf" /\ x.n < 0 /\ ~(y.k = "inf" /\ y.n < 0)
            \/ y.k = "inf" /\ y.n > 0 /\ ~(x.k = "inf" /\ x.n > 0)
       ELSE x.n * y.d < y.n * x.d

\* x > y
Gt(x, y) == Lt(y, x)

\* x <= y
Le(x, y) == ~IsNaN(x) /\ ~IsNaN(y) /\ ~Lt(y, x)

\* Math.min(x, y): NaN when an argument is NaN.
Min(x, y) ==
    IF IsNaN(x) \/ IsNaN(y) THEN NaN
    ELSE IF Lt(y, x) THEN y ELSE x

\* The largest integer r in lo..hi-1 with r * r <= m, given lo * lo <= m < hi * hi.
RECURSIVE ISqrtFrom(_, _, _)
ISqrtFrom(m, lo, hi) ==
    IF hi - lo <= 1 THEN lo
    ELSE LET mid == (lo + hi) \div 2
         IN  IF mid * mid <= m THEN ISqrtFrom(m, mid, hi) ELSE ISqrtFrom(m, lo, mid)

\* The largest integer r with r * r <= m, for 0 <= m < 46341 * 46341.
ISqrt(m) == ISqrtFrom(m, 0, IF m < 46341 THEN m + 1 ELSE 46341)

\* Math.sqrt(x): exact when x is the square of a rational, otherwise rounded
\* down to a multiple of 1/d.
Sqrt(x) ==
    IF IsNaN(x) THEN NaN
    ELSE IF x.n < 0 THEN NaN
    ELSE IF x.k = "inf" THEN PosInf
    ELSE Fin(ISqrt(x.n * x.d), x.d)

\* values.reduce((a, b) => a + b, 0)
RECURSIVE Sum(_)
Sum(values) ==
    IF values = <<>> THEN Num(0)
    ELSE Add(Sum(SubSeq(values, 1, Len(values) - 1)), values[Len(values)])

----------------------------------------------------------------------------
(* Bounds and input domains                                                *)

\* Largest number of process calls made on the filter under test.
MaxCalls == 6

\* Largest number of rows the sensor_calibration table grows to.
MaxCalRows == 2

\* Largest value of the store's clock (the created_at default, now()).
MaxTime == 2

\* Largest number of readings a caller collects from processSensorData.
MaxReturned == 6

\* Largest length of a sample handed to calculateStats on its own.
MaxSample == 2

\* Rows of sensor_raw_data written by storeSensorData.
MaxStored == 2

\* Largest number of channels the dashboard opens.
MaxChannels == 2

\* Steps of 30 minutes the clock moves on while the seeding script runs.
MaxSeedTime == 1

\* Values of the samples handed to calculateStats on its own.
StatValues ==
    {Num(-3), Num(0), Num(2), Num(7), Num(10), Num(12), Num(55), Num(100),
     Num(208), Num(1000)}

\* Window sizes a MovingAverageFilter is constructed with: the pipeline's own
\* (5 and 3), the smallest positive one, and two non-positive ones.
WindowSizes == {-1, 0, 1, 3, 5}

\* Values fed to the filter under test.
FilterInputs == {Num(10), Num(12), Num(14), Num(16), Num(18)}

\* Sensor ids (monitoring_locations.id).
Sensors == {1, 2}

\* Callers of processSensorData.
Callers == {1}

\* Callers of processSensorData that call without awaiting one another.
ConcurrentCallers == {1, 2}

\* A reading of a stable depth and a reading of a depth spike.
StableReading ==
    [raw_depth |-> Num(10), raw_turbidity |-> Num(5), raw_temperature |-> Num(20),
     voltage |-> Num(12), battery_level |-> Num(85), signal_strength |-> Num(90)]

SpikeReading ==
    [raw_depth |-> Num(1000), raw_turbidity |-> Num(5), raw_temperature |-> Num(20),
     voltage |-> Num(12), battery_level |-> Fin(171, 2), signal_strength |-> Fin(1787, 20)]

\* Raw readings handed to processSensorData by a caller that collects what it
\* returns, and by concurrent callers.
SessionReadings == {StableReading, SpikeReading}

\* Raw readings a caller processes and stores: one of quality in [0, 1], one
\* of negative quality, one of quality capped at 1.
StoredReadings ==
    { StableReading,
      [raw_depth |-> Fin(401, 10), raw_turbidity |-> Fin(13, 2), raw_temperature |-> Num(22),
       voltage |-> Num(12), battery_level |-> Num(20), signal_strength |-> Num(-10)],
      [raw_depth |-> Num(10), raw_turbidity |-> Num(5), raw_temperature |-> Num(25),
       voltage |-> Num(11), battery_level |-> Num(150), signal_strength |-> Num(150)] }

\* The calibration written while a caller collects readings.
SessionCalibration == [offset_value |-> Num(1), scale_factor |-> Num(2)]

\* Raw readings handed to processSensorData.
RawReadings ==
    { [raw_depth |-> Num(10), raw_turbidity |-> Num(5), raw_temperature |-> Num(20),
       voltage |-> Num(12), battery_level |-> Num(85), signal_strength |-> Num(90)],
      [raw_depth |-> Num(10), raw_turbidity |-> Num(5), raw_temperature |-> Num(25),
       voltage |-> Num(11), battery_level |-> Num(150), signal_strength |-> Num(150)],
      [raw_depth |-> Num(100), raw_turbidity |-> Num(8), raw_temperature |-> Num(20),
       voltage |-> Num(12), battery_level |-> Num(100), signal_strength |-> Num(100)],
      [raw_depth |-> Num(100), raw_turbidity |-> Num(8), raw_temperature |-> Num(20),
       voltage |-> Num(12), battery_level |-> Num(0), signal_strength |-> Num(0)],
      [raw_depth |-> Num(-3), raw_turbidity |-> Num(0), raw_temperature |-> Num(-1),
       voltage |-> Num(12), battery_level |-> Num(0), signal_strength |-> Num(150)],
      [raw_depth |-> Fin(401, 10), raw_turbidity |-> Fin(13, 2), raw_temperature |-> Num(22),
       voltage |-> Num(12), battery_level |-> Num(20), signal_strength |-> Num(-10)],
      [raw_depth |-> Num(0), raw_turbidity |-> Fin(13, 2), raw_temperature |-> Num(22),
       voltage |-> Num(12), battery_level |-> Num(200), signal_strength |-> Num(30)],
      [raw_depth |-> Num(1000), raw_turbidity |-> Num(5), raw_temperature |-> Num(20),
       voltage |-> Num(12), battery_level |-> Fin(171, 2), signal_strength |-> Fin(1787, 20)] }

\* Physical parameters a calibration row can be for.
Parameters == {"depth", "turbidity"}

\* (offset_value, scale_factor) pairs written to sensor_calibration.
CalibrationValues ==
    { [offset_value |-> Fin(-1, 10), scale_factor |-> Fin(49, 50)],
      [offset_value |-> Num(1), scale_factor |-> Num(2)] }

----------------------------------------------------------------------------
(* State                                                                   *)

VARIABLES
    filter,          \* the MovingAverageFilter under test, or NoFilter
    fInputs,         \* history: every value passed to its process, in order
    fOutputs,        \* history: every value its process returned, in order
    calibrationRows, \* the rows of table sensor_calibration
    now,             \* the store's clock
    invocations,     \* caller -> its processSensorData invocation
    returned,        \* the readings a caller collected from processSensorData, in order
    sample,          \* the values last handed to calculateStats on its own
    sampleStats,     \* what calculateStats returned for them
    rawTable,        \* the rows of table sensor_raw_data, in insertion order
    processedTable,  \* the rows of table sensor_processed_data, in insertion order
    stores,          \* caller -> its storeSensorData invocation
    seed,            \* the run of the seeding script
    dashboard,       \* the Dashboard component: its state, query data and effect
    channels         \* the channels of the realtime client, in order of creation

vars == <<filter, fInputs, fOutputs, calibrationRows, now, invocations,
          returned, sample, sampleStats, rawTable, processedTable, stores, seed,
          dashboard, channels>>

filterVars == <<filter, fInputs, fOutputs>>

pipelineVars == <<calibrationRows, now, invocations, returned>>

statsVars == <<sample, sampleStats>>

storeVars == <<rawTable, processedTable, stores, seed>>

dashboardVars == <<dashboard, channels>>

\* What the actions on the filter under test leave alone.
exceptFilter == <<pipelineVars, statsVars, storeVars, dashboardVars>>

\* What the actions of processSensorData and of the calibration store leave
\* alone, besides the parts of pipelineVars each names.
exceptPipeline == <<filterVars, statsVars, storeVars, dashboardVars>>

\* What calculateStats on its own leaves alone.
exceptStats == <<filterVars, pipelineVars, storeVars, dashboardVars>>

\* What storeSensorData and the seeding script leave alone, besides the
\* variables each names.
exceptStore == <<filterVars, statsVars, invocations, returned, dashboardVars>>

NoFilter == [exists |-> FALSE, windowSize |-> 0, values |-> <<>>]

----------------------------------------------------------------------------
(* MovingAverageFilter                                                     *)

\* new MovingAverageFilter(windowSize): stores the window size, unchecked.
MovingAverageFilter(windowSize) ==
    [exists |-> TRUE, windowSize |-> windowSize, values |-> <<>>]

\* process without the shift: the array grows with every call.
process_NoShift(f, value) ==
    LET values == Append(f.values, value)
    IN  [filter |-> [f EXCEPT !.values = values],
         result |-> Div(Sum(values), Num(Len(values)))]

\* process dividing the sum by the window size instead of the array length.
process_DivideByWindow(f, value) ==
    LET pushed == Append(f.values, value)
        values == IF Len(pushed) > f.windowSize THEN Tail(pushed) ELSE pushed
    IN  [filter |-> [f EXCEPT !.values = values],
         result |-> Div(Sum(values), Num(f.windowSize))]

\* process removing the newest value instead of the oldest (pop for shift).
process_DropsNewest(f, value) ==
    LET pushed == Append(f.values, value)
        values == IF Len(pushed) > f.windowSize
                  THEN SubSeq(pushed, 1, Len(pushed) - 1) ELSE pushed
    IN  [filter |-> [f EXCEPT !.values = values],
         result |-> Div(Sum(values), Num(Len(values)))]

\* process(value): push the value, shift the oldest one out when the array is
\* longer than the window, return the sum of the array over its length.
\* Yields the filter afterwards and the value returned.
process(f, value) ==
    LET pushed == Append(f.values, value)
        values == IF Len(pushed) > f.windowSize THEN Tail(pushed) ELSE pushed
    IN  [filter |-> [f EXCEPT !.values = values],
         result |-> Div(Sum(values), Num(Len(values)))]

----------------------------------------------------------------------------
(* Statistics helpers                                                      *)

\* isOutlier testing "not within the threshold": a NaN z-score is flagged.
isOutlier_NotWithin(value, mean, stdDev, threshold) ==
    ~Le(Abs(Div(Sub(value, mean), stdDev)), threshold)

\* isOutlier(value, mean, stdDev, threshold): |(value - mean) / stdDev| > threshold
isOutlier(value, mean, stdDev, threshold) ==
    Gt(Abs(Div(Sub(value, mean), stdDev)), threshold)

\* Math.pow(x, 2)
Square(x) == Mul(x, x)

\* values.reduce((a, b) => a + Math.pow(b - mean, 2), 0)
RECURSIVE SumSquares(_, _)
SumSquares(values, mean) ==
    IF values = <<>> THEN Num(0)
    ELSE Add(SumSquares(SubSeq(values, 1, Len(values) - 1), mean),
             Square(Sub(values[Len(values)], mean)))

\* calculateStats with the sample variance (the sum of squares over N - 1).
calculateStats_SampleVariance(values) ==
    LET mean == Div(Sum(values), Num(Len(values)))
        variance == Div(SumSquares(values, mean), Num(Len(values) - 1))
    IN  [mean |-> mean, stdDev |-> Sqrt(variance)]

\* calculateStats(values): the mean and the square root of the variance, both
\* sums divided by values.length.
calculateStats(values) ==
    LET mean == Div(Sum(values), Num(Len(values)))
        variance == Div(SumSquares(values, mean), Num(Len(values)))
    IN  [mean |-> mean, stdDev |-> Sqrt(variance)]

----------------------------------------------------------------------------
(* The sensor_calibration table and the lookup                             *)

\* A default calibration that scales by 0 instead of 1.
DefaultCalibration_ZeroScale == [offset_value |-> Num(0), scale_factor |-> Num(0)]

\* The calibration processSensorData falls back to.
DefaultCalibration == [offset_value |-> Num(0), scale_factor |-> Num(1)]

\* The rows .eq('sensor_id', sensorId) keeps.
RowsOf(rows, sensorId) == {r \in rows : r.sensor_id = sensorId}

\* The query keeping only the rows of parameter "depth".
QueryData_DepthOnly(rows, sensorId) ==
    LET mine == {r \in RowsOf(rows, sensorId) : r.parameter = "depth"}
    IN  IF mine = {} THEN {<<>>}
        ELSE {<<r>> : r \in {x \in mine : \A y \in mine : y.created_at <= x.created_at}}

\* The possible data of a successful query .eq(sensor_id).order(created_at
\* desc).limit(1): one row of the sensor with no later row of the sensor (the
\* order among rows of equal created_at is the store's choice), or no row.
QueryData(rows, sensorId) ==
    LET mine == RowsOf(rows, sensorId)
    IN  IF mine = {} THEN {<<>>}
        ELSE {<<r>> : r \in {x \in mine : \A y \in mine : y.created_at <= x.created_at}}

\* What the awaited query resolves to: {data, error}. The client resolves with
\* data null and error set when the request fails; it does not throw.
OkResponse(data) == [isNull |-> FALSE, data |-> data, error |-> FALSE]

ErrorResponse == [isNull |-> TRUE, data |-> <<>>, error |-> TRUE]

----------------------------------------------------------------------------
(* processSensorData                                                       *)

\* calibrationData?.[0] || { offset_value: 0, scale_factor: 1 }
Calibration(response) ==
    IF ~response.isNull /\ Len(response.data) > 0
    THEN [offset_value |-> response.data[1].offset_value,
          scale_factor |-> response.data[1].scale_factor]
    ELSE DefaultCalibration

\* The calibration with the offset added before scaling.
CalibratedDepth_OffsetFirst(filteredDepth, calibration) ==
    Mul(Add(filteredDepth, calibration.offset_value), calibration.scale_factor)

\* filteredDepth * calibration.scale_factor + calibration.offset_value
CalibratedDepth(filteredDepth, calibration) ==
    Add(Mul(filteredDepth, calibration.scale_factor), calibration.offset_value)

\* The sediment level with the two weights exchanged.
SedimentLevel_WeightsSwapped(filteredTurbidity, calibratedDepth) ==
    Add(Mul(filteredTurbidity, Fin(2, 10)), Mul(calibratedDepth, Fin(8, 10)))

\* (filteredTurbidity * 0.8) + (calibratedDepth * 0.2)
SedimentLevel(filteredTurbidity, calibratedDepth) ==
    Add(Mul(filteredTurbidity, Fin(8, 10)), Mul(calibratedDepth, Fin(2, 10)))

\* The quality score without the cap at 1.
QualityScore_NoCap(rawData) ==
    Add(Mul(Div(rawData.signal_strength, Num(100)), Fin(7, 10)),
        Mul(Div(rawData.battery_level, Num(100)), Fin(3, 10)))

\* Math.min(1, (signal_strength / 100) * 0.7 + (battery_level / 100) * 0.3)
QualityScore(rawData) ==
    Min(Num(1),
        Add(Mul(Div(rawData.signal_strength, Num(100)), Fin(7, 10)),
            Mul(Div(rawData.battery_level, Num(100)), Fin(3, 10))))

NoReading == [raw_depth |-> Num(0), raw_turbidity |-> Num(0), raw_temperature |-> Num(0),
              voltage |-> Num(0), battery_level |-> Num(0), signal_strength |-> Num(0)]

NoResult == [depth |-> Num(0), turbidity |-> Num(0), temperature |-> Num(0),
             sediment_level |-> Num(0), quality_score |-> Num(0), is_outlier |-> FALSE]

\* An invocation that has not been made. concurrentWith is history: the callers
\* whose invocation was suspended in its query when this one started.
Idle ==
    [pc |-> "idle", rawData |-> NoReading, sensorId |-> 0, concurrentWith |-> {},
     response |-> OkResponse(<<>>), calibration |-> DefaultCalibration,
     filteredDepth |-> Num(0), filteredTurbidity |-> Num(0),
     filteredTemperature |-> Num(0), depthFilter |-> NoFilter,
     mean |-> Num(0), stdDev |-> Num(0),
     outcome |-> "none", result |-> NoResult]

\* processSensorData taking the statistics of the outlier test over the
\* calibrated depth and the raw depth.
ResumeWith_StatsOfCalibrated(inv, response, depthFilter, turbidityFilter, temperatureFilter) ==
    LET calibration == Calibration(response)
        depth == process(depthFilter, inv.rawData.raw_depth)
        turbidity == process(turbidityFilter, inv.rawData.raw_turbidity)
        temperature == process(temperatureFilter, inv.rawData.raw_temperature)
        calibratedDepth == CalibratedDepth(depth.result, calibration)
        stats == calculateStats(<<calibratedDepth, inv.rawData.raw_depth>>)
    IN  [inv EXCEPT
            !.pc = "done",
            !.response = response,
            !.calibration = calibration,
            !.filteredDepth = depth.result,
            !.filteredTurbidity = turbidity.result,
            !.filteredTemperature = temperature.result,
            !.depthFilter = depth.filter,
            !.mean = stats.mean,
            !.stdDev = stats.stdDev,
            !.outcome = "fulfilled",
            !.result = [depth |-> calibratedDepth,
                        turbidity |-> turbidity.result,
                        temperature |-> temperature.result,
                        sediment_level |-> SedimentLevel(turbidity.result, calibratedDepth),
                        quality_score |-> QualityScore(inv.rawData),
                        is_outlier |->
                            isOutlier(inv.rawData.raw_depth, stats.mean, stats.stdDev,
                                      Num(3))]]

\* The body of processSensorData after the awaited query resolved with
\* `response`, given the three filters it works with: it runs to the return
\* without suspending, and always fulfils.
ResumeWith(inv, response, depthFilter, turbidityFilter, temperatureFilter) ==
    LET calibration == Calibration(response)
        depth == process(depthFilter, inv.rawData.raw_depth)
        turbidity == process(turbidityFilter, inv.rawData.raw_turbidity)
        temperature == process(temperatureFilter, inv.rawData.raw_temperature)
        filteredDepth == depth.result
        calibratedDepth == CalibratedDepth(filteredDepth, calibration)
        filteredTurbidity == turbidity.result
        filteredTemperature == temperature.result
        sedimentLevel == SedimentLevel(filteredTurbidity, calibratedDepth)
        qualityScore == QualityScore(inv.rawData)
        stats == calculateStats(<<filteredDepth, inv.rawData.raw_depth>>)
        isDepthOutlier == isOutlier(inv.rawData.raw_depth, stats.mean, stats.stdDev, Num(3))
    IN  [inv EXCEPT
            !.pc = "done",
            !.response = response,
            !.calibration = calibration,
            !.filteredDepth = filteredDepth,
            !.filteredTurbidity = filteredTurbidity,
            !.filteredTemperature = filteredTemperature,
            !.depthFilter = depth.filter,
            !.mean = stats.mean,
            !.stdDev = stats.stdDev,
            !.outcome = "fulfilled",
            !.result = [depth |-> calibratedDepth,
                        turbidity |-> filteredTurbidity,
                        temperature |-> filteredTemperature,
                        sediment_level |-> sedimentLevel,
                        quality_score |-> qualityScore,
                        is_outlier |-> isDepthOutlier]]

\* The filter f after process was called on it with each of values in turn.
RECURSIVE Fed(_, _)
Fed(f, values) ==
    IF values = <<>> THEN f
    ELSE process(Fed(f, SubSeq(values, 1, Len(values) - 1)), values[Len(values)]).filter

\* The raw readings of the invocations that ran their filters before now: the
\* collected ones in order, then one that returned and is not yet collected.
Processed ==
    LET collected == [i \in 1..Len(returned) |-> returned[i].rawData]
        done == {c \in DOMAIN invocations : invocations[c].pc = "done"}
    IN  IF done = {} THEN collected
        ELSE Append(collected, invocations[CHOOSE c \in done : TRUE].rawData)

\* processSensorData with its three filters kept at module level: they hold
\* the values of the earlier invocations.
Resume_SharedFilters(inv, response) ==
    ResumeWith(inv, response,
        Fed(MovingAverageFilter(5), [i \in 1..Len(Processed) |-> Processed[i].raw_depth]),
        Fed(MovingAverageFilter(5), [i \in 1..Len(Processed) |-> Processed[i].raw_turbidity]),
        Fed(MovingAverageFilter(3), [i \in 1..Len(Processed) |-> Processed[i].raw_temperature]))

\* processSensorData suspending a second time after the query, before it
\* filters and scores.
Resume_SuspendsAgain(inv, response) ==
    [inv EXCEPT !.response = response, !.calibration = Calibration(response)]

\* processSensorData clamping the signal strength of the reading it was given
\* to 100 in place before it scores it.
Resume_ClampsInput(inv, response) ==
    ResumeWith([inv EXCEPT !.rawData.signal_strength = Min(Num(100), @)], response,
        MovingAverageFilter(5), MovingAverageFilter(5), MovingAverageFilter(3))

\* The body of processSensorData after the awaited query resolved with
\* `response`: three fresh filters (windows 5, 5 and 3), then ResumeWith.
Resume(inv, response) ==
    ResumeWith(inv, response,
        MovingAverageFilter(5), MovingAverageFilter(5), MovingAverageFilter(3))

----------------------------------------------------------------------------
(* The tables of raw and processed readings, and storeSensorData           *)

\* { ...a, ...b }: the fields of a and of b, those of b winning.
Spread(a, b) ==
    [k \in DOMAIN a \cup DOMAIN b |-> IF k \in DOMAIN b THEN b[k] ELSE a[k]]

\* NULL in a bigint reference column (identities start at 1).
NullId == 0

\* The row the store makes of a record inserted into sensor_raw_data at time t.
RawRow(id, t, record) == Spread([id |-> id, created_at |-> t], record)

\* NULL in a text column.
NullText == "NULL"

\* The row the store makes of a record inserted into sensor_processed_data at
\* time t: a column the record does not name takes its default, NULL where
\* none is declared.
ProcessedRow(id, t, record) ==
    Spread([id |-> id, created_at |-> t, raw_reading_id |-> NullId,
            is_outlier |-> FALSE, processing_method |-> NullText], record)

\* The rows appended to a table of `table` rows by the insert of `records`.
RawRows(table, t, records) ==
    [i \in 1..Len(records) |-> RawRow(Len(table) + i, t, records[i])]

ProcessedRows(table, t, records) ==
    [i \in 1..Len(records) |-> ProcessedRow(Len(table) + i, t, records[i])]

\* CHECK (quality_score >= 0 AND quality_score <= 1); a number JSON cannot
\* carry arrives as NULL, which passes.
QualityCheck(q) == ~IsFinite(q) \/ (Le(Num(0), q) /\ Le(q, Num(1)))

\* sensor_id REFERENCES monitoring_locations(id)
SensorExists(sensorId) == sensorId \in Sensors

\* raw_reading_id REFERENCES sensor_raw_data(id), nullable
RawReadingExists(table, id) ==
    id = NullId \/ \E i \in 1..Len(table) : table[i].id = id

\* The store accepts the insert of `records` into sensor_raw_data: no record
\* breaks a constraint.
AcceptsRaw(records) ==
    {i \in 1..Len(records) : ~SensorExists(records[i].sensor_id)} = {}

\* The store accepts the insert of `records` into sensor_processed_data, the
\* raw table being `table`.
AcceptsProcessed(table, records) ==
    {i \in 1..Len(records) :
        ~(/\ SensorExists(records[i].sensor_id)
          /\ RawReadingExists(table, ProcessedRow(NullId, 0, records[i]).raw_reading_id)
          /\ QualityCheck(records[i].quality_score))} = {}

\* { sensor_id: sensorId, ...rawData }
RawRecord(rawData, sensorId) == Spread([sensor_id |-> sensorId], rawData)

\* The processed record of storeSensorData without the id of the raw row.
StoredRecord_NoReference(rawDataRecord, processedData, sensorId) ==
    Spread(Spread([sensor_id |-> sensorId], processedData),
           [processing_method |-> "moving_average"])

\* The processed record of storeSensorData without the processing method.
StoredRecord_Untagged(rawDataRecord, processedData, sensorId) ==
    Spread([raw_reading_id |-> rawDataRecord.id, sensor_id |-> sensorId], processedData)

\* { raw_reading_id: rawDataRecord.id, sensor_id: sensorId, ...processedData,
\*   processing_method: 'moving_average' }
StoredRecord(rawDataRecord, processedData, sensorId) ==
    Spread(Spread([raw_reading_id |-> rawDataRecord.id, sensor_id |-> sensorId],
                  processedData),
           [processing_method |-> "moving_average"])

\* A storeSensorData invocation that has not been made.
StoreIdle ==
    [pc |-> "idle", rawData |-> NoReading, processedData |-> NoResult, sensorId |-> 0,
     rawDataRecord |-> RawRow(NullId, 0, RawRecord(NoReading, 0)),
     outcome |-> "none", error |-> "none"]

----------------------------------------------------------------------------
(* The dashboard and its realtime subscription                             *)
(* A nullable value is a sequence: <<>> for null or undefined, <<row>> for *)
(* a row. A channel of the realtime client is a record of the sensor of    *)
(* its filter, its state and the INSERT events sent to it and not yet      *)
(* handed to its callback. unsubscribe() returns a promise that nothing    *)
(* awaits: the channel is leaving until the server answers, and an event   *)
(* the server sent before its answer still reaches the client.             *)

\* const currentReadings = realtimeData || latestReadings, with the operands
\* the other way round.
currentReadings_LatestFirst(realtimeData, latestReadings) ==
    IF latestReadings # <<>> THEN latestReadings ELSE realtimeData

\* const currentReadings = realtimeData || latestReadings
currentReadings(realtimeData, latestReadings) ==
    IF realtimeData # <<>> THEN realtimeData ELSE latestReadings

\* The component before it is mounted: useState(false), useState(null), a
\* query without data under either key, no effect run yet.
NotMounted ==
    [mounted |-> "no", showRawData |-> FALSE, realtimeData |-> <<>>,
     queryData |-> [raw \in BOOLEAN |-> <<>>],
     sensorId |-> 0, channel |-> 0]

\* data of useQuery({ queryKey: ['latestReadings', showRawData] })
latestReadings(d) == d.queryData[d.showRawData]

\* latestReadings?.sensor_id, 0 when it is undefined or null
SensorIdOf(latest) == IF latest = <<>> THEN 0 ELSE latest[1].sensor_id

\* .order('created_at', { ascending: false }).limit(1), then data?.[0] || null
LatestOf(table) ==
    { <<table[i]>> : i \in { i \in 1..Len(table) :
          \A j \in 1..Len(table) : table[j].created_at <= table[i].created_at } }
    \cup (IF table = <<>> THEN {<<>>} ELSE {})

\* setupRealtimeSubscription(sensorId, onData): a channel filtered on the
\* sensor is created and asked to join.
setupRealtimeSubscription(chs, sensorId) ==
    Append(chs, [sensorId |-> sensorId, state |-> "joining", pending |-> <<>>])

\* The function setupRealtimeSubscription returned, called on channel i:
\* subscription.unsubscribe() is called and not awaited.
unsubscribe(chs, i) == [chs EXCEPT ![i].state = "leaving"]

\* The effect on [latestReadings?.sensor_id] after a render: when the sensor
\* changed, the cleanup of the last run, then the new run, which returns at
\* once without a sensor.
useEffect(d, chs) ==
    LET sensorId == SensorIdOf(latestReadings(d))
        cleaned == IF d.channel = 0 THEN chs ELSE unsubscribe(chs, d.channel)
    IN  IF sensorId = d.sensorId THEN [dashboard |-> d, channels |-> chs]
        ELSE IF sensorId = 0
        THEN [dashboard |-> [d EXCEPT !.sensorId = 0, !.channel = 0],
              channels |-> cleaned]
        ELSE [dashboard |-> [d EXCEPT !.sensorId = sensorId, !.channel = Len(cleaned) + 1],
              channels |-> setupRealtimeSubscription(cleaned, sensorId)]

\* The INSERT events of rows the server sends: to every channel it has as a
\* member, for the rows of the channel's sensor.
Publish(chs, rows) ==
    [i \in 1..Len(chs) |->
        IF chs[i].state \in {"joined", "leaving"}
        THEN [chs[i] EXCEPT !.pending =
                 @ \o SelectSeq(rows, LAMBDA r : r.sensor_id = chs[i].sensorId)]
        ELSE chs[i]]

\* Dashboard is rendered for the first time; without latestReadings the
\* effect returns at once.
Mount ==
    /\ dashboard.mounted = "no"
    /\ dashboard' = [dashboard EXCEPT !.mounted = "yes"]
    /\ UNCHANGED <<filterVars, pipelineVars, statsVars, storeVars, channels>>

\* The latestReadings query, run on mount, on a change of its key and every
\* 30 seconds, resolves; the component renders again and its effect runs.
LatestReadingsFetched ==
    /\ dashboard.mounted = "yes"
    /\ \E data \in LatestOf(IF dashboard.showRawData THEN rawTable ELSE processedTable) :
          LET after == useEffect([dashboard EXCEPT !.queryData[dashboard.showRawData] = data],
                                 channels)
          IN  /\ Len(after.channels) <= MaxChannels
              /\ dashboard' = after.dashboard
              /\ channels' = after.channels
    /\ UNCHANGED <<filterVars, pipelineVars, statsVars, storeVars>>

\* onClick={() => setShowRawData(!showRawData)}: the query key changes, the
\* query hands out what it holds under the new key, the effect runs.
ToggleRawData ==
    /\ dashboard.mounted = "yes"
    /\ LET after == useEffect([dashboard EXCEPT !.showRawData = ~@], channels)
       IN  /\ Len(after.channels) <= MaxChannels
           /\ dashboard' = after.dashboard
           /\ channels' = after.channels
    /\ UNCHANGED <<filterVars, pipelineVars, statsVars, storeVars>>

\* The component is unmounted: the cleanup of the last effect run.
Unmount ==
    /\ dashboard.mounted = "yes"
    /\ dashboard' = [dashboard EXCEPT !.mounted = "gone", !.channel = 0]
    /\ channels' = IF dashboard.channel = 0 THEN channels
                   ELSE unsubscribe(channels, dashboard.channel)
    /\ UNCHANGED <<filterVars, pipelineVars, statsVars, storeVars>>

\* The server answers the join of .subscribe().
ChannelJoined(i) ==
    /\ channels[i].state = "joining"
    /\ channels' = [channels EXCEPT ![i].state = "joined"]
    /\ UNCHANGED <<filterVars, pipelineVars, statsVars, storeVars, dashboard>>

\* The server answers the leave of unsubscribe(), after every event it sent
\* before.
ChannelClosed(i) ==
    /\ channels[i].state = "leaving"
    /\ channels[i].pending = <<>>
    /\ channels' = [channels EXCEPT ![i].state = "closed"]
    /\ UNCHANGED <<filterVars, pipelineVars, statsVars, storeVars, dashboard>>

\* (payload) => { onData(payload.new) } with onData = (data) =>
\* setRealtimeData(data): the next event of channel i reaches the client. A
\* state setter of an unmounted component does nothing.
onData(i) ==
    /\ channels[i].pending # <<>>
    /\ channels' = [channels EXCEPT ![i].pending = Tail(@)]
    /\ dashboard' = IF dashboard.mounted = "yes"
                    THEN [dashboard EXCEPT !.realtimeData = <<Head(channels[i].pending)>>]
                    ELSE dashboard
    /\ UNCHANGED <<filterVars, pipelineVars, statsVars, storeVars>>

----------------------------------------------------------------------------
(* The seeding script                                                      *)
(* Time is counted in steps of 30 minutes, the step of the script's loop;  *)
(* the clock reads 0 at a midnight. Every Math.random() draw of one        *)
(* location's pass yields the same value r.                                *)

\* if (rawDataBatch.length >= batchSize)
batchSize == 100

\* Seven days, in steps of 30 minutes.
SevenDays == 336

\* Values of Math.random().
Draws == {Num(0), Fin(1, 2)}

\* The rows of monitoring_locations the seeding of locations writes first.
Locations == <<[id |-> 1, max_depth |-> Num(50)], [id |-> 2, max_depth |-> Num(35)]>>

\* What the query of monitoring_locations can return.
LocationLists == {SubSeq(Locations, 1, n) : n \in 0..Len(Locations)}

\* value * (1 + noiseFactor * noise), noise the sum of six draws less 0.5 each
addNoise(value, noiseFactor, r) ==
    Mul(value, Add(Num(1), Mul(noiseFactor, Mul(Num(6), Sub(r, Fin(1, 2))))))

\* timestamp.getHours()
getHours(timestamp) == (timestamp \div 2) % 24

\* Math.sin((hourOfDay / 24) * 2 * Math.PI), to the nearest quarter.
dailyFactor(hourOfDay) ==
    LET quarter == <<0, 1, 2, 3, 3, 4, 4, 4, 3, 3, 2, 1>>
    IN  IF hourOfDay < 12 THEN Fin(quarter[hourOfDay + 1], 4)
        ELSE Fin(-quarter[hourOfDay - 11], 4)

generateSensorData(baseValues, timestamp, r) ==
    LET factor == dailyFactor(getHours(timestamp))
    IN  [raw_depth |->
             addNoise(Mul(baseValues.depth, Add(Num(1), Mul(Fin(1, 20), factor))),
                      Fin(1, 50), r),
         raw_turbidity |->
             addNoise(Mul(baseValues.turbidity, Add(Num(1), Mul(Fin(1, 10), factor))),
                      Fin(1, 50), r),
         raw_temperature |->
             addNoise(Add(baseValues.temperature, Mul(Num(2), factor)), Fin(1, 50), r),
         voltage |-> addNoise(Num(12), Fin(1, 100), r),
         battery_level |-> addNoise(Add(Num(85), Mul(Num(5), factor)), Fin(1, 200), r),
         signal_strength |->
             addNoise(Sub(Num(90), Mul(Num(5), Abs(factor))), Fin(1, 50), r)]

processRawData(rawData, calibration) ==
    LET depth == Add(Mul(rawData.raw_depth, calibration.scale_factor),
                     calibration.offset_value)
        turbidity == rawData.raw_turbidity
        temperature == rawData.raw_temperature
        sedimentLevel == Add(Mul(turbidity, Fin(8, 10)), Mul(depth, Fin(2, 10)))
        qualityScore ==
            Min(Num(1),
                Add(Mul(Div(rawData.signal_strength, Num(100)), Fin(7, 10)),
                    Mul(Div(rawData.battery_level, Num(100)), Fin(3, 10))))
    IN  [depth |-> depth,
         turbidity |-> turbidity,
         temperature |-> temperature,
         sediment_level |-> sedimentLevel,
         quality_score |-> qualityScore,
         is_outlier |-> FALSE,
         processing_method |-> "moving_average"]

NoCalibrationData == [sensor_id |-> 0, offset_value |-> Num(0), scale_factor |-> Num(1)]

\* The script before it runs.
SeedIdle ==
    [pc |-> "idle", locations |-> <<>>, index |-> 0, random |-> Num(0),
     calibrationData |-> NoCalibrationData, currentTime |-> 0,
     rawDataBatch |-> <<>>, processedDataBatch |-> <<>>, outcome |-> "none"]

\* catch (error) { process.exit(1) }
SeedExit(s) == [s EXCEPT !.pc = "done", !.outcome = "exit1"]

\* The next turn of `for (const location of locations)`, r the draws of
\* that location's pass: the calibration insert is sent; after the last
\* location the script completes.
SeedNextLocation(s, r) ==
    IF s.index < Len(s.locations)
    THEN [s EXCEPT
             !.pc = "await_calibration", !.index = @ + 1, !.random = r,
             !.calibrationData =
                 [sensor_id |-> s.locations[s.index + 1].id,
                  offset_value |-> Sub(Mul(r, Fin(2, 10)), Fin(1, 10)),
                  scale_factor |-> Add(Fin(98, 100), Mul(r, Fin(4, 100)))]]
    ELSE [s EXCEPT !.pc = "done", !.outcome = "completed"]

\* The reading the loop generates for the time t at location s.index, and the
\* processed record it makes of it.
SeedRawData(s, t) ==
    LET location == s.locations[s.index]
        baseValues == [depth |-> Mul(location.max_depth, Fin(8, 10)),
                       turbidity |-> Add(Num(5), Mul(s.random, Num(3))),
                       temperature |-> Add(Num(20), Mul(s.random, Num(5)))]
    IN  Spread([created_at |-> t, sensor_id |-> location.id],
               generateSensorData(baseValues, t, s.random))

SeedProcessedData(s, t) ==
    Spread([created_at |-> t, sensor_id |-> s.locations[s.index].id],
           processRawData(SeedRawData(s, t), s.calibrationData))

\* The while loop without `currentTime = currentTime + 30 minutes`.
SeedLoop_TimeStandsStill(s, clock, r) ==
    LET room == batchSize - Len(s.rawDataBatch)
        left == IF s.currentTime < clock THEN clock - s.currentTime ELSE 0
        n == IF left < room THEN left ELSE room
        pushed == [s EXCEPT
                      !.rawDataBatch =
                          @ \o [i \in 1..n |-> SeedRawData(s, s.currentTime)],
                      !.processedDataBatch =
                          @ \o [i \in 1..n |-> SeedProcessedData(s, s.currentTime)]]
    IN  IF left >= room
        THEN [pushed EXCEPT !.pc = "await_raw_batch"]
        ELSE IF Len(pushed.rawDataBatch) > 0
             THEN [pushed EXCEPT !.pc = "await_final_raw"]
             ELSE SeedNextLocation(pushed, r)

\* The while loop without the insert of the remaining batch after it.
SeedLoop_DropsRemainder(s, clock, r) ==
    LET room == batchSize - Len(s.rawDataBatch)
        left == IF s.currentTime < clock THEN clock - s.currentTime ELSE 0
        n == IF left < room THEN left ELSE room
        pushed == [s EXCEPT
                      !.rawDataBatch =
                          @ \o [i \in 1..n |-> SeedRawData(s, s.currentTime + i - 1)],
                      !.processedDataBatch =
                          @ \o [i \in 1..n |-> SeedProcessedData(s, s.currentTime + i - 1)]]
    IN  IF left >= room
        THEN [pushed EXCEPT !.pc = "await_raw_batch", !.currentTime = @ + n - 1]
        ELSE SeedNextLocation([pushed EXCEPT !.currentTime = @ + n], r)

\* The while loop from its test to the next await, the clock reading `clock`:
\* each iteration pushes a reading on both batches and advances the time by
\* 30 minutes, until the batch is full, which sends the raw insert before the
\* time advances, or the time reaches the clock; then a remaining batch sends
\* the final raw insert, and with none the next location follows. The batch
\* holds fewer than batchSize readings when the test is made, so `room`
\* iterations fill it.
SeedLoop(s, clock, r) ==
    LET room == batchSize - Len(s.rawDataBatch)
        left == IF s.currentTime < clock THEN clock - s.currentTime ELSE 0
        n == IF left < room THEN left ELSE room
        pushed == [s EXCEPT
                      !.rawDataBatch =
                          @ \o [i \in 1..n |-> SeedRawData(s, s.currentTime + i - 1)],
                      !.processedDataBatch =
                          @ \o [i \in 1..n |-> SeedProcessedData(s, s.currentTime + i - 1)]]
    IN  IF left >= room
        THEN [pushed EXCEPT !.pc = "await_raw_batch", !.currentTime = @ + n - 1]
        ELSE LET ended == [pushed EXCEPT !.currentTime = @ + n]
             IN  IF Len(ended.rawDataBatch) > 0
                 THEN [ended EXCEPT !.pc = "await_final_raw"]
                 ELSE SeedNextLocation(ended, r)

----------------------------------------------------------------------------
(* Actions                                                                 *)

\* new MovingAverageFilter(windowSize)
Construct(windowSize) ==
    /\ ~filter.exists
    /\ filter' = MovingAverageFilter(windowSize)
    /\ UNCHANGED <<fInputs, fOutputs, exceptFilter>>

\* filter.process(value)
Process(value) ==
    /\ filter.exists
    /\ Len(fInputs) < MaxCalls
    /\ LET r == process(filter, value)
       IN  /\ filter' = r.filter
           /\ fInputs' = Append(fInputs, value)
           /\ fOutputs' = Append(fOutputs, r.result)
    /\ UNCHANGED exceptFilter

\* processSensorData(rawData, sensorId) up to its await: the query is sent.
Call(c, rawData, sensorId) ==
    /\ invocations[c].pc # "await"
    /\ invocations' = [invocations EXCEPT
           ![c] = [Idle EXCEPT
                      !.pc = "await", !.rawData = rawData, !.sensorId = sensorId,
                      !.concurrentWith =
                          {d \in DOMAIN invocations \ {c} : invocations[d].pc = "await"}]]
    /\ UNCHANGED <<exceptPipeline, calibrationRows, now, returned>>

\* The query succeeds and processSensorData runs to its return.
LookupOk(c) ==
    /\ invocations[c].pc = "await"
    /\ \E data \in QueryData(calibrationRows, invocations[c].sensorId) :
           invocations' = [invocations EXCEPT ![c] = Resume(@, OkResponse(data))]
    /\ UNCHANGED <<exceptPipeline, calibrationRows, now, returned>>

\* The query fails and processSensorData runs to its return.
LookupError(c) ==
    /\ invocations[c].pc = "await"
    /\ invocations' = [invocations EXCEPT ![c] = Resume(@, ErrorResponse)]
    /\ UNCHANGED <<exceptPipeline, calibrationRows, now, returned>>

\* The calibration workflow writes a row; created_at defaults to now().
InsertCalibration(sensorId, values) ==
    /\ Cardinality(calibrationRows) < MaxCalRows
    /\ calibrationRows' = calibrationRows \cup
           {[id |-> Cardinality(calibrationRows) + 1, created_at |-> now,
             sensor_id |-> sensorId, offset_value |-> values.offset_value,
             scale_factor |-> values.scale_factor]}
    /\ UNCHANGED <<exceptPipeline, now, invocations, returned>>

\* The calibration workflow writes a row for one physical parameter of a
\* sensor (parameter text NOT NULL).
InsertCalibrationFor(sensorId, parameter, values) ==
    /\ Cardinality(calibrationRows) < MaxCalRows
    /\ calibrationRows' = calibrationRows \cup
           {[id |-> Cardinality(calibrationRows) + 1, created_at |-> now,
             sensor_id |-> sensorId, parameter |-> parameter,
             offset_value |-> values.offset_value,
             scale_factor |-> values.scale_factor]}
    /\ UNCHANGED <<exceptPipeline, now, invocations, returned>>

\* Time passes in the store.
Tick ==
    /\ now < MaxTime
    /\ now' = now + 1
    /\ UNCHANGED <<exceptPipeline, calibrationRows, invocations, returned>>

\* The caller takes the reading its invocation returned and keeps it.
Collect(c) ==
    /\ invocations[c].pc = "done"
    /\ Len(returned) < MaxReturned
    /\ returned' = Append(returned,
           [rawData |-> invocations[c].rawData, sensorId |-> invocations[c].sensorId,
            calibration |-> invocations[c].calibration,
            result |-> invocations[c].result])
    /\ invocations' = [invocations EXCEPT ![c] = Idle]
    /\ UNCHANGED <<exceptPipeline, calibrationRows, now>>

\* A caller that awaits and collects each reading before its next call.
SessionCall(c, rawData, sensorId) ==
    /\ invocations[c].pc = "idle"
    /\ Len(returned) < MaxReturned
    /\ Call(c, rawData, sensorId)

\* The calibration workflow writes the first row of a sensor.
SessionCalibrate(sensorId) ==
    /\ calibrationRows = {}
    /\ InsertCalibration(sensorId, SessionCalibration)

\* storeSensorData(rawData, processedData, sensorId) up to its first await:
\* the raw insert is sent.
StoreCall(c, rawData, processedData, sensorId) ==
    /\ stores[c].pc \notin {"await_raw", "await_processed"}
    /\ Len(rawTable) < MaxStored
    /\ stores' = [stores EXCEPT
           ![c] = [StoreIdle EXCEPT
                      !.pc = "await_raw", !.rawData = rawData,
                      !.processedData = processedData, !.sensorId = sensorId]]
    /\ UNCHANGED <<exceptStore, calibrationRows, now, rawTable, processedTable, seed>>

\* The raw insert succeeds: the row is returned and the processed insert is sent.
RawInsertOk(c) ==
    /\ stores[c].pc = "await_raw"
    /\ LET records == <<RawRecord(stores[c].rawData, stores[c].sensorId)>>
           rows == RawRows(rawTable, now, records)
       IN  /\ AcceptsRaw(records)
           /\ rawTable' = rawTable \o rows
           /\ stores' = [stores EXCEPT
                  ![c].pc = "await_processed", ![c].rawDataRecord = rows[1]]
    /\ UNCHANGED <<exceptStore, calibrationRows, now, processedTable, seed>>

\* The raw insert fails: storeSensorData throws rawError.
RawInsertError(c) ==
    /\ stores[c].pc = "await_raw"
    /\ stores' = [stores EXCEPT
           ![c].pc = "done", ![c].outcome = "rejected", ![c].error = "rawError"]
    /\ UNCHANGED <<exceptStore, calibrationRows, now, rawTable, processedTable, seed>>

\* The processed insert succeeds: storeSensorData returns.
ProcessedInsertOk(c) ==
    /\ stores[c].pc = "await_processed"
    /\ LET records == <<StoredRecord(stores[c].rawDataRecord, stores[c].processedData,
                                     stores[c].sensorId)>>
       IN  /\ AcceptsProcessed(rawTable, records)
           /\ processedTable' = processedTable \o ProcessedRows(processedTable, now, records)
           /\ channels' = Publish(channels, ProcessedRows(processedTable, now, records))
    /\ stores' = [stores EXCEPT ![c].pc = "done", ![c].outcome = "fulfilled"]
    /\ UNCHANGED <<filterVars, statsVars, invocations, returned, dashboard,
                   calibrationRows, now, rawTable, seed>>

\* The processed insert fails: storeSensorData throws processedError.
ProcessedInsertError(c) ==
    /\ stores[c].pc = "await_processed"
    /\ stores' = [stores EXCEPT
           ![c].pc = "done", ![c].outcome = "rejected", ![c].error = "processedError"]
    /\ UNCHANGED <<exceptStore, calibrationRows, now, rawTable, processedTable, seed>>

\* A caller that processes a reading and stores what processSensorData
\* returned, one reading at a time.
IngestCall(c, rawData, sensorId) ==
    /\ stores[c].pc \notin {"await_raw", "await_processed"}
    /\ Call(c, rawData, sensorId)

IngestStore(c) ==
    /\ invocations[c].pc = "done"
    /\ stores[c].pc \notin {"await_raw", "await_processed"}
    /\ StoreCall(c, invocations[c].rawData, invocations[c].result, invocations[c].sensorId)

\* seedSensorData() up to its first await: the locations query is sent.
SeedStart ==
    /\ seed.pc = "idle"
    /\ seed' = [seed EXCEPT !.pc = "await_locations"]
    /\ UNCHANGED <<exceptStore, calibrationRows, now, rawTable, processedTable, stores>>

\* The locations query succeeds: without locations the script exits with 1,
\* otherwise it sends the calibration insert of the first location.
SeedLocationsOk(locations, r) ==
    /\ seed.pc = "await_locations"
    /\ seed' = IF Len(locations) = 0 THEN SeedExit(seed)
               ELSE SeedNextLocation([seed EXCEPT !.locations = locations], r)
    /\ UNCHANGED <<exceptStore, calibrationRows, now, rawTable, processedTable, stores>>

\* An awaited request of the script fails: it exits with 1.
SeedRequestError ==
    /\ seed.pc \in {"await_locations", "await_calibration", "await_raw_batch",
                    "await_processed_batch", "await_final_raw", "await_final_processed"}
    /\ seed' = SeedExit(seed)
    /\ UNCHANGED <<exceptStore, calibrationRows, now, rawTable, processedTable, stores>>

\* The calibration insert succeeds: the loop starts seven days before now with
\* empty batches and runs to its next await.
SeedCalibrationOk(r) ==
    /\ seed.pc = "await_calibration"
    /\ calibrationRows' = calibrationRows \cup
           {[id |-> Cardinality(calibrationRows) + 1, created_at |-> now,
             sensor_id |-> seed.calibrationData.sensor_id,
             offset_value |-> seed.calibrationData.offset_value,
             scale_factor |-> seed.calibrationData.scale_factor]}
    /\ seed' = SeedLoop([seed EXCEPT !.currentTime = now - SevenDays,
                                     !.rawDataBatch = <<>>,
                                     !.processedDataBatch = <<>>], now, r)
    /\ UNCHANGED <<exceptStore, now, rawTable, processedTable, stores>>

\* The insert of the raw batch succeeds: the insert of the processed batch is
\* sent.
SeedRawInsertOk ==
    /\ seed.pc \in {"await_raw_batch", "await_final_raw"}
    /\ AcceptsRaw(seed.rawDataBatch)
    /\ rawTable' = rawTable \o RawRows(rawTable, now, seed.rawDataBatch)
    /\ seed' = [seed EXCEPT !.pc = IF @ = "await_raw_batch" THEN "await_processed_batch"
                                   ELSE "await_final_processed"]
    /\ UNCHANGED <<exceptStore, calibrationRows, now, processedTable, stores>>

\* The insert of the processed batch succeeds. In the loop the batches are
\* emptied, the time advances by 30 minutes and the loop runs to its next
\* await; after the loop the next location follows.
SeedProcessedInsertOk(r) ==
    /\ seed.pc \in {"await_processed_batch", "await_final_processed"}
    /\ AcceptsProcessed(rawTable, seed.processedDataBatch)
    /\ processedTable' =
           processedTable \o ProcessedRows(processedTable, now, seed.processedDataBatch)
    /\ seed' = IF seed.pc = "await_processed_batch"
               THEN SeedLoop([seed EXCEPT !.rawDataBatch = <<>>,
                                          !.processedDataBatch = <<>>,
                                          !.currentTime = @ + 1], now, r)
               ELSE SeedNextLocation(seed, r)
    /\ channels' = Publish(channels, ProcessedRows(processedTable, now, seed.processedDataBatch))
    /\ UNCHANGED <<filterVars, statsVars, invocations, returned, dashboard,
                   calibrationRows, now, rawTable, stores>>

\* Time passes while the script runs.
SeedTick ==
    /\ seed.pc \notin {"idle", "done"}
    /\ now < MaxSeedTime
    /\ now' = now + 1
    /\ UNCHANGED <<exceptStore, calibrationRows, rawTable, processedTable, stores, seed>>

\* The samples of 1..MaxSample values.
Samples == UNION {[1..n -> StatValues] : n \in 1..MaxSample}

\* calculateStats(values)
ComputeStats(values) ==
    /\ sample' = values
    /\ sampleStats' = calculateStats(values)
    /\ UNCHANGED exceptStats

----------------------------------------------------------------------------
(* Specifications                                                          *)

Init ==
    /\ filter = NoFilter
    /\ fInputs = <<>>
    /\ fOutputs = <<>>
    /\ calibrationRows = {}
    /\ now = 0
    /\ invocations = [c \in Callers |-> Idle]
    /\ returned = <<>>
    /\ sample = <<>>
    /\ sampleStats = [mean |-> Num(0), stdDev |-> Num(0)]
    /\ rawTable = <<>>
    /\ processedTable = <<>>
    /\ stores = [c \in Callers |-> StoreIdle]
    /\ seed = SeedIdle
    /\ dashboard = NotMounted
    /\ channels = <<>>

\* The pipeline against the calibration store.
Next ==
    \/ \E c \in Callers, rawData \in RawReadings, sensorId \in Sensors :
           Call(c, rawData, sensorId)
    \/ \E c \in Callers : LookupOk(c)
    \/ \E c \in Callers : LookupError(c)
    \/ \E sensorId \in Sensors, values \in CalibrationValues :
           InsertCalibration(sensorId, values)
    \/ Tick

Spec == Init /\ [][Next]_vars

\* One MovingAverageFilter and the calls made on it.
FilterNext ==
    \/ \E windowSize \in WindowSizes : Construct(windowSize)
    \/ \E value \in FilterInputs : Process(value)

FilterSpec == Init /\ [][FilterNext]_vars

\* One caller of processSensorData for one sensor, which awaits each reading
\* and collects it before it calls again.
SessionNext ==
    \/ \E c \in Callers, rawData \in SessionReadings : SessionCall(c, rawData, 1)
    \/ \E c \in Callers : LookupOk(c)
    \/ \E c \in Callers : LookupError(c)
    \/ \E c \in Callers : Collect(c)
    \/ SessionCalibrate(1)

SessionSpec == Init /\ [][SessionNext]_vars

\* Two callers of processSensorData that do not await one another.
ConcurrentInit ==
    /\ filter = NoFilter
    /\ fInputs = <<>>
    /\ fOutputs = <<>>
    /\ calibrationRows = {}
    /\ now = 0
    /\ invocations = [c \in ConcurrentCallers |-> Idle]
    /\ returned = <<>>
    /\ sample = <<>>
    /\ sampleStats = [mean |-> Num(0), stdDev |-> Num(0)]
    /\ rawTable = <<>>
    /\ processedTable = <<>>
    /\ stores = [c \in Callers |-> StoreIdle]
    /\ seed = SeedIdle
    /\ dashboard = NotMounted
    /\ channels = <<>>

ConcurrentNext ==
    \/ \E c \in ConcurrentCallers, rawData \in SessionReadings, sensorId \in Sensors :
           Call(c, rawData, sensorId)
    \/ \E c \in ConcurrentCallers : LookupOk(c)
    \/ \E c \in ConcurrentCallers : LookupError(c)
    \/ \E sensorId \in Sensors, values \in CalibrationValues :
           InsertCalibration(sensorId, values)

ConcurrentSpec == ConcurrentInit /\ [][ConcurrentNext]_vars

\* One caller that processes readings and stores them, against the three
\* tables.
StoreNext ==
    \/ \E c \in Callers, rawData \in StoredReadings, sensorId \in Sensors :
           IngestCall(c, rawData, sensorId)
    \/ \E c \in Callers : LookupOk(c)
    \/ \E c \in Callers : LookupError(c)
    \/ \E c \in Callers : IngestStore(c)
    \/ \E c \in Callers : RawInsertOk(c)
    \/ \E c \in Callers : RawInsertError(c)
    \/ \E c \in Callers : ProcessedInsertOk(c)
    \/ \E c \in Callers : ProcessedInsertError(c)
    \/ SessionCalibrate(1)

StoreSpec == Init /\ [][StoreNext]_vars

\* A processed reading of StableReading, as processSensorData returns it
\* without calibration rows.
StableResult ==
    Resume([Idle EXCEPT !.rawData = StableReading], OkResponse(<<>>)).result

\* The dashboard while readings are stored, all within one reading of the
\* store's clock: which of the rows of equal created_at is the latest is the
\* store's choice.
DashboardNext ==
    \/ Mount
    \/ LatestReadingsFetched
    \/ ToggleRawData
    \/ Unmount
    \/ \E i \in 1..Len(channels) : ChannelJoined(i)
    \/ \E i \in 1..Len(channels) : ChannelClosed(i)
    \/ \E i \in 1..Len(channels) : onData(i)
    \/ \E c \in Callers, sensorId \in Sensors :
           StoreCall(c, StableReading, StableResult, sensorId)
    \/ \E c \in Callers : RawInsertOk(c)
    \/ \E c \in Callers : ProcessedInsertOk(c)

DashboardSpec == Init /\ [][DashboardNext]_vars

\* One run of the seeding script against the store.
SeedNext ==
    \/ SeedStart
    \/ \E locations \in LocationLists, r \in Draws : SeedLocationsOk(locations, r)
    \/ SeedRequestError
    \/ \E r \in Draws : SeedCalibrationOk(r)
    \/ SeedRawInsertOk
    \/ \E r \in Draws : SeedProcessedInsertOk(r)
    \/ SeedTick

SeedSpec == Init /\ [][SeedNext]_vars

\* What the script does when a request it awaits is answered.
SeedResponds ==
    \/ SeedStart
    \/ \E locations \in LocationLists, r \in Draws : SeedLocationsOk(locations, r)
    \/ SeedRequestError
    \/ \E r \in Draws : SeedCalibrationOk(r)
    \/ SeedRawInsertOk
    \/ \E r \in Draws : SeedProcessedInsertOk(r)

\* The run of the script when every request it awaits is answered in the end,
\* with a result or an error, and the script then runs on.
SeedFairSpec == Init /\ [][SeedNext]_vars /\ WF_vars(SeedResponds)

\* The pipeline against a calibration store that holds rows for several
\* physical parameters.
ParameterNext ==
    \/ \E c \in Callers, rawData \in SessionReadings, sensorId \in Sensors :
           Call(c, rawData, sensorId)
    \/ \E c \in Callers : LookupOk(c)
    \/ \E c \in Callers : LookupError(c)
    \/ \E sensorId \in Sensors, parameter \in Parameters, values \in CalibrationValues :
           InsertCalibrationFor(sensorId, parameter, values)
    \/ Tick

ParameterSpec == Init /\ [][ParameterNext]_vars

\* calculateStats applied to samples of bounded length.
StatsNext == \E values \in Samples : ComputeStats(values)

StatsSpec == Init /\ [][StatsNext]_vars

----------------------------------------------------------------------------
(* Properties of MovingAverageFilter (checked under FilterSpec)            *)

IMin(a, b) == IF a < b THEN a ELSE b

\* The product of the denominators of finite numbers xs.
RECURSIVE Denominators(_)
Denominators(xs) == IF xs = <<>> THEN 1 ELSE xs[1].d * Denominators(Tail(xs))

\* The sum of finite numbers xs in units of 1/D, D a multiple of each denominator.
RECURSIVE Numerators(_, _)
Numerators(xs, D) ==
    IF xs = <<>> THEN 0 ELSE xs[1].n * (D \div xs[1].d) + Numerators(Tail(xs), D)

\* The arithmetic mean of finite numbers xs, by integer arithmetic.
ArithmeticMean(xs) ==
    LET D == Denominators(xs) IN Fin(Numerators(xs, D), D * Len(xs))

\* The last m elements of xs[1..k].
LastOf(xs, k, m) == SubSeq(xs, k - m + 1, k)

\* C1: for every window size N >= 1, after the k-th process call the filter's
\* value sequence has length min(k, N), hence at most N.
C1_LengthIsMinOfCallsAndWindow ==
    (filter.exists /\ filter.windowSize >= 1) =>
        /\ Len(filter.values) = IMin(Len(fInputs), filter.windowSize)
        /\ Len(filter.values) <= filter.windowSize

\* C1 witness: a window-3 filter after five calls holds three values.
C1_Witness ==
    /\ filter.exists
    /\ filter.windowSize = 3
    /\ Len(fInputs) = 5
    /\ Len(filter.values) = 3

\* C2: for every window size N >= 1 the k-th process call returns the
\* arithmetic mean of the last min(k, N) inputs; the first call returns its
\* input; a window-5 filter fed 10, 12, 14, 16, 18 returns 10, 11, 12, 13, 14.
C2_OutputIsMeanOfLastInputs ==
    (filter.exists /\ filter.windowSize >= 1) =>
        /\ Len(fOutputs) = Len(fInputs)
        /\ \A k \in 1..Len(fOutputs) :
               fOutputs[k] =
                   ArithmeticMean(LastOf(fInputs, k, IMin(k, filter.windowSize)))
        /\ Len(fOutputs) >= 1 => fOutputs[1] = fInputs[1]
        /\ (filter.windowSize = 5
              /\ fInputs = <<Num(10), Num(12), Num(14), Num(16), Num(18)>>)
             => fOutputs = <<Num(10), Num(11), Num(12), Num(13), Num(14)>>

\* C2 witness: the window-5 filter has been fed 10, 12, 14, 16, 18 and the
\* fifth call returned 14.
C2_Witness ==
    /\ filter.exists
    /\ filter.windowSize = 5
    /\ fInputs = <<Num(10), Num(12), Num(14), Num(16), Num(18)>>
    /\ fOutputs[5] = Num(14)

\* C10: a filter with a window size N <= 0 is rejected at construction, so no
\* filter with a non-positive window exists and process is never called on one.
C10_NoNonPositiveWindow ==
    filter.exists => filter.windowSize >= 1

----------------------------------------------------------------------------
(* Properties of processSensorData (checked under Spec)                    *)

\* The callers whose invocation has returned.
Done == {c \in Callers : invocations[c].pc = "done"}

\* C3: every produced reading has a quality score in [0, 1], for every raw
\* reading the pipeline accepts (any finite signal strength and battery level).
C3_QualityInUnitInterval ==
    \A c \in Done :
        /\ Le(Num(0), invocations[c].result.quality_score)
        /\ Le(invocations[c].result.quality_score, Num(1))

\* 0.7 * (signal_strength / 100) + 0.3 * (battery_level / 100), by integer
\* arithmetic over the two fractions.
WeightedHealth(rawData) ==
    LET s == rawData.signal_strength
        b == rawData.battery_level
    IN  Fin(7 * s.n * b.d + 3 * b.n * s.d, 1000 * s.d * b.d)

\* C4: for non-negative signal strength and battery level, values above 100
\* included, the quality score is min(1, 0.7 * signal/100 + 0.3 * battery/100),
\* lies in [0, 1], and is exactly 1 when the weighted sum is at least 1.
C4_QualityIsCappedWeightedSum ==
    \A c \in Done :
        LET raw == invocations[c].rawData
            w == WeightedHealth(raw)
            q == invocations[c].result.quality_score
        IN  (raw.signal_strength.n >= 0 /\ raw.battery_level.n >= 0) =>
                /\ q = (IF w.n > w.d THEN Num(1) ELSE w)
                /\ q.k = "fin" /\ 0 <= q.n /\ q.n <= q.d
                /\ (w.n >= w.d) => q = Num(1)

\* C4 witness: a reading with signal strength and battery level 150 was
\* processed and scored 1.
C4_Witness ==
    \E c \in Done :
        /\ invocations[c].rawData.signal_strength = Num(150)
        /\ invocations[c].rawData.battery_level = Num(150)
        /\ invocations[c].result.quality_score = Num(1)

\* C5: whenever the smoothed depth equals the raw depth (standard deviation 0)
\* the produced reading is not flagged as an outlier, and the call returns a
\* reading rather than failing.
C5_NoOutlierOnZeroDeviation ==
    \A c \in Done :
        invocations[c].filteredDepth = invocations[c].rawData.raw_depth =>
            /\ invocations[c].result.is_outlier = FALSE
            /\ invocations[c].outcome = "fulfilled"

\* C5 witness: a reading whose two-element sample has standard deviation 0 was
\* processed and not flagged.
C5_Witness ==
    \E c \in Done :
        /\ invocations[c].filteredDepth = invocations[c].rawData.raw_depth
        /\ invocations[c].stdDev = Num(0)
        /\ invocations[c].result.is_outlier = FALSE

\* C6: when the calibration lookup fails with an I/O error, processSensorData
\* fails with that error and produces no reading.
C6_LookupErrorPropagates ==
    \A c \in Done :
        invocations[c].response.error => invocations[c].outcome = "rejected"

\* The calibration the store holds for a sensor: the identity when it has no
\* row of the sensor, else the values of a latest row of the sensor.
IsResolved(calibration, rows, sensorId) ==
    IF RowsOf(rows, sensorId) = {}
    THEN calibration = [offset_value |-> Num(0), scale_factor |-> Num(1)]
    ELSE \E r \in RowsOf(rows, sensorId) :
             /\ \A y \in RowsOf(rows, sensorId) : y.created_at <= r.created_at
             /\ calibration = [offset_value |-> r.offset_value,
                               scale_factor |-> r.scale_factor]

\* C7: the calibration an invocation uses is the identity when the store holds
\* no row of its sensor, and otherwise a latest-created row of that sensor.
C7_CalibrationIsLatestRow ==
    [][\A c \in Callers :
          (invocations[c].pc = "await" /\ invocations'[c].pc = "done") =>
              IsResolved(invocations'[c].calibration, calibrationRows,
                         invocations[c].sensorId)]_vars

\* C7 restricted to lookups that succeed: the part of C7 the code satisfies.
C7_HoldsWhenLookupSucceeds ==
    [][\A c \in Callers :
          (invocations[c].pc = "await" /\ invocations'[c].pc = "done"
             /\ ~invocations'[c].response.error) =>
              /\ IsResolved(invocations'[c].calibration, calibrationRows,
                            invocations[c].sensorId)
              /\ \A i \in 1..Len(invocations'[c].response.data) :
                     invocations'[c].response.data[i].sensor_id = invocations[c].sensorId]_vars

\* x * y + z over finite numbers, by integer arithmetic.
ScaleAndOffset(x, y, z) ==
    Fin(x.n * y.n * z.d + z.n * x.d * y.d, x.d * y.d * z.d)

\* C8: the output depth is smoothed_depth * scale_factor + offset for the
\* calibration in use (the smoothed depth itself under offset 0, scale 1); the
\* output turbidity and temperature are their smoothed values, whatever the
\* calibration.
C8_OnlyDepthIsCalibrated ==
    \A c \in Done :
        LET inv == invocations[c] IN
        /\ inv.result.depth =
               ScaleAndOffset(inv.filteredDepth, inv.calibration.scale_factor,
                              inv.calibration.offset_value)
        /\ (inv.calibration.offset_value = Num(0)
              /\ inv.calibration.scale_factor = Num(1))
             => inv.result.depth = inv.filteredDepth
        /\ inv.result.turbidity = inv.filteredTurbidity
        /\ inv.result.temperature = inv.filteredTemperature
        /\ inv.filteredTurbidity = inv.rawData.raw_turbidity
        /\ inv.filteredTemperature = inv.rawData.raw_temperature

\* C8 witness: a reading of depth 10 was processed under offset 1, scale 2 and
\* came out with depth 21 and its turbidity unchanged.
C8_Witness ==
    \E c \in Done :
        /\ invocations[c].calibration = [offset_value |-> Num(1), scale_factor |-> Num(2)]
        /\ invocations[c].rawData.raw_depth = Num(10)
        /\ invocations[c].result.depth = Num(21)
        /\ invocations[c].result.turbidity = Num(5)

\* The responses the calibration query can resolve to.
Responses ==
    {ErrorResponse, OkResponse(<<>>)} \cup
    {OkResponse(<<[id |-> 1, created_at |-> 0, sensor_id |-> s,
                   offset_value |-> v.offset_value, scale_factor |-> v.scale_factor]>>) :
         s \in Sensors, v \in CalibrationValues}

\* The readings processSensorData returns over all raw readings, sensors and
\* responses.
Returned ==
    {Resume([Idle EXCEPT !.rawData = rawData, !.sensorId = sensorId], response).result :
         rawData \in RawReadings, sensorId \in Sensors, response \in Responses}

\* C9: the sediment level is 0.8 * smoothed_turbidity + 0.2 * calibrated_depth,
\* and any other reading with the same smoothed turbidity and calibrated depth
\* gets the same sediment level, whatever its other fields and its sensor.
C9_SedimentIsFixedCombination ==
    \A c \in Done :
        LET r == invocations[c].result
            t == r.turbidity
            d == r.depth
        IN  /\ r.sediment_level = Fin(4 * t.n * d.d + d.n * t.d, 5 * t.d * d.d)
            /\ \A o \in Returned :
                   (o.turbidity = r.turbidity /\ o.depth = r.depth)
                       => o.sediment_level = r.sediment_level

\* C9 witness: a reading of turbidity 5 and depth 10 under the default
\* calibration came out with sediment level 6.
C9_Witness ==
    \E c \in Done :
        /\ invocations[c].result.turbidity = Num(5)
        /\ invocations[c].result.depth = Num(10)
        /\ invocations[c].result.sediment_level = Num(6)
        /\ invocations[c].rawData.signal_strength = Num(150)


----------------------------------------------------------------------------
(* C11 .. C20                                                              *)

\* C11: a reading processed with fresh filters and the default calibration
\* (the lookup found no row for the sensor) comes out with its raw depth,
\* turbidity and temperature and with the outlier flag false; signal strength
\* 100 and battery level 100 give quality score 1, raw depth 100 gives depth 100.
C11_FreshDefaultIsIdentity ==
    \A c \in Done :
        LET inv == invocations[c] IN
        (~inv.response.error /\ inv.response.data = <<>>) =>
            /\ inv.result.depth = inv.rawData.raw_depth
            /\ inv.result.turbidity = inv.rawData.raw_turbidity
            /\ inv.result.temperature = inv.rawData.raw_temperature
            /\ inv.result.is_outlier = FALSE
            /\ (inv.rawData.signal_strength = Num(100)
                  /\ inv.rawData.battery_level = Num(100))
                 => inv.result.quality_score = Num(1)
            /\ inv.rawData.raw_depth = Num(100) => inv.result.depth = Num(100)

\* C11 witness: scenario B has run: raw depth 100, signal strength 100, battery
\* level 100, no calibration row found; depth 100, quality 1, not an outlier.
C11_Witness ==
    \E c \in Done :
        /\ ~invocations[c].response.error
        /\ invocations[c].response.data = <<>>
        /\ invocations[c].rawData.raw_depth = Num(100)
        /\ invocations[c].rawData.signal_strength = Num(100)
        /\ invocations[c].rawData.battery_level = Num(100)
        /\ invocations[c].result.depth = Num(100)
        /\ invocations[c].result.quality_score = Num(1)
        /\ invocations[c].result.is_outlier = FALSE

\* C15: after the k-th process call on a filter of window N >= 1 the internal
\* sequence is exactly the last min(k, N) inputs, in arrival order.
C15_ValuesAreLastInputsInOrder ==
    (filter.exists /\ filter.windowSize >= 1) =>
        filter.values =
            LastOf(fInputs, Len(fInputs), IMin(Len(fInputs), filter.windowSize))

\* C15 witness: a window-3 filter fed 10, 12, 14, 16, 18 holds 14, 16, 18.
C15_Witness ==
    /\ filter.exists
    /\ filter.windowSize = 3
    /\ fInputs = <<Num(10), Num(12), Num(14), Num(16), Num(18)>>
    /\ filter.values = <<Num(14), Num(16), Num(18)>>

\* The sum of the squares of finite numbers xs in units of 1/(D*D).
RECURSIVE SquaredNumerators(_, _)
SquaredNumerators(xs, D) ==
    IF xs = <<>> THEN 0
    ELSE (xs[1].n * (D \div xs[1].d)) * (xs[1].n * (D \div xs[1].d))
             + SquaredNumerators(Tail(xs), D)

\* The population variance of finite numbers xs, (N * sum of x^2 - (sum of
\* x)^2) / N^2, by integer arithmetic.
PopulationVariance(xs) ==
    LET D == Denominators(xs)
        N == Len(xs)
        S == Numerators(xs, D)
    IN  Fin(N * SquaredNumerators(xs, D) - S * S, N * N * D * D)

\* C20: calculateStats returns the arithmetic mean and the population standard
\* deviation (variance over N, not N - 1): 0 for a single value, and for two
\* values a, b the mean (a + b) / 2 and the standard deviation |a - b| / 2.
C20_PopulationStatistics ==
    sample # <<>> =>
        /\ sampleStats.mean = ArithmeticMean(sample)
        /\ sampleStats.stdDev = Sqrt(PopulationVariance(sample))
        /\ Len(sample) = 1 => sampleStats.stdDev = Num(0)
        /\ Len(sample) = 2 =>
               LET a == sample[1]
                   b == sample[2]
               IN  /\ sampleStats.mean = Fin(a.n * b.d + b.n * a.d, 2 * a.d * b.d)
                   /\ sampleStats.stdDev = Fin(IAbs(a.n * b.d - b.n * a.d), 2 * a.d * b.d)

\* C20 witness: calculateStats([10, 100]) returned mean 55, deviation 45.
C20_Witness ==
    /\ sample = <<Num(10), Num(100)>>
    /\ sampleStats.mean = Num(55)
    /\ sampleStats.stdDev = Num(45)

\* Whether returned[k] is a depth spike after five stable readings of its
\* sensor: raw depth 1000 after five consecutive readings of raw depth 10.
IsSpikeAfterFiveStable(k) ==
    /\ k >= 6
    /\ k <= Len(returned)
    /\ returned[k].rawData.raw_depth = Num(1000)
    /\ \A i \in (k - 5)..(k - 1) :
           /\ returned[i].rawData.raw_depth = Num(10)
           /\ returned[i].sensorId = returned[k].sensorId

\* C12: when five readings of raw depth 10 are processed for a sensor and a
\* sixth of raw depth 1000 follows, the sixth reading is not flagged as an
\* outlier.
C12_SpikeIsNotFlagged ==
    \A k \in 1..Len(returned) :
        IsSpikeAfterFiveStable(k) => returned[k].result.is_outlier = FALSE

\* C12 witness: the sixth collected reading is a spike after five stable ones
\* and is not flagged.
C12_Witness ==
    /\ IsSpikeAfterFiveStable(6)
    /\ returned[6].result.is_outlier = FALSE

\* The reading processSensorData returns for one raw reading under one
\* calibration when every filter holds that reading alone, by integer
\* arithmetic.
ExpectedReading(rawData, calibration) ==
    LET d == ScaleAndOffset(rawData.raw_depth, calibration.scale_factor,
                            calibration.offset_value)
        t == rawData.raw_turbidity
        w == WeightedHealth(rawData)
    IN  [depth |-> d,
         turbidity |-> t,
         temperature |-> rawData.raw_temperature,
         sediment_level |-> Fin(4 * t.n * d.d + d.n * t.d, 5 * t.d * d.d),
         quality_score |-> IF w.n > w.d THEN Num(1) ELSE w,
         is_outlier |-> FALSE]

\* C16: the reading the n-th invocation returns is determined by the n-th raw
\* reading and the calibration it resolved: its smoothed values are the raw
\* values themselves, and two invocations with the same raw reading and the
\* same calibration return the same reading, whatever was processed between.
C16_OutputIgnoresEarlierReadings ==
    /\ \A n \in 1..Len(returned) :
           returned[n].result =
               ExpectedReading(returned[n].rawData, returned[n].calibration)
    /\ \A m, n \in 1..Len(returned) :
           (returned[m].rawData = returned[n].rawData
              /\ returned[m].calibration = returned[n].calibration)
             => returned[m].result = returned[n].result

\* C16 witness: a stable reading, a spike and the same stable reading were
\* processed in this order under the same calibration, and the third came out
\* as the first.
C16_Witness ==
    /\ Len(returned) >= 3
    /\ returned[1].rawData = StableReading
    /\ returned[2].rawData = SpikeReading
    /\ returned[3].rawData = StableReading
    /\ returned[1].calibration = returned[3].calibration
    /\ returned[3].result = returned[1].result
    /\ returned[3].result.depth = Num(10)

\* The invocations suspended in the calibration query.
InProgress == {c \in DOMAIN invocations : invocations[c].pc = "await"}

\* C17: no two processSensorData invocations are in progress at the same time:
\* a second one never starts while an earlier one is suspended in its lookup.
C17_OneInvocationAtATime ==
    Cardinality(InProgress) <= 1

\* C17 as amended: the calibration lookup is the only point where an
\* invocation is suspended: the step that receives the query's response runs
\* the filtering and the scoring to the return, leaving a fulfilled invocation
\* with its complete reading, and touches no other invocation. Invocations are
\* not serialized: one can start and complete while another is suspended.
C17_LookupIsOnlySuspension ==
    [][\A c \in DOMAIN invocations :
          (invocations[c].pc = "await" /\ invocations'[c] # invocations[c]) =>
              /\ invocations'[c].pc = "done"
              /\ invocations'[c].outcome = "fulfilled"
              /\ invocations'[c].result =
                     ExpectedReading(invocations[c].rawData, invocations'[c].calibration)
              /\ \A d \in DOMAIN invocations \ {c} : invocations'[d] = invocations[d]]_vars

\* C17 witness: an invocation started while the other was suspended in its
\* lookup and has returned while the other is still suspended.
C17_Witness ==
    \E c, d \in DOMAIN invocations :
        /\ c # d
        /\ invocations[c].pc = "done"
        /\ d \in invocations[c].concurrentWith
        /\ invocations[d].pc = "await"

\* The responses the calibration query of a sensor can resolve to against rows.
ResponsesAgainst(rows, sensorId) ==
    {ErrorResponse} \cup {OkResponse(data) : data \in QueryData(rows, sensorId)}

\* The calibration a response stands for.
CalibrationIn(response) ==
    IF response.error \/ response.data = <<>>
    THEN [offset_value |-> Num(0), scale_factor |-> Num(1)]
    ELSE [offset_value |-> response.data[1].offset_value,
          scale_factor |-> response.data[1].scale_factor]

\* C18: invocations that interleave at the calibration lookup, for distinct
\* sensors or the same one, each return the reading they would return if run
\* alone against the same calibration store.
C18_InterleavingIsInvisible ==
    [][\A c \in DOMAIN invocations :
          (invocations[c].pc = "await" /\ invocations'[c].pc = "done") =>
              \E response \in ResponsesAgainst(calibrationRows, invocations[c].sensorId) :
                  invocations'[c].result =
                      ExpectedReading(invocations[c].rawData, CalibrationIn(response))]_vars

\* C18 witness: both invocations have returned, the second having started while
\* the first was suspended in its lookup, with different raw readings.
C18_Witness ==
    \E c, d \in DOMAIN invocations :
        /\ c # d
        /\ invocations[c].pc = "done"
        /\ invocations[d].pc = "done"
        /\ d \in invocations[c].concurrentWith
        /\ invocations[c].rawData # invocations[d].rawData
        /\ invocations[c].result =
               ExpectedReading(invocations[c].rawData, invocations[c].calibration)

----------------------------------------------------------------------------
(* Properties of processSensorData and storeSensorData together (checked   *)
(* under StoreSpec)                                                        *)

\* C19: processSensorData leaves the store and its arguments unchanged: a step
\* of an invocation, the call or the return after the lookup, succeeded or
\* failed, changes no row of sensor_calibration, sensor_raw_data or
\* sensor_processed_data, and the invocation returns with the raw reading and
\* the sensor id it was given.
C19_ProcessSensorDataOnlyReads ==
    [][\A c \in DOMAIN invocations :
          invocations'[c] # invocations[c] =>
              /\ calibrationRows' = calibrationRows
              /\ rawTable' = rawTable
              /\ processedTable' = processedTable
              /\ invocations[c].pc = "await" =>
                     /\ invocations'[c].pc = "done"
                     /\ invocations'[c].rawData = invocations[c].rawData
                     /\ invocations'[c].sensorId = invocations[c].sensorId]_vars

\* C19 witness: against a store that holds a calibration row, a raw row and a
\* processed row, an invocation whose reading has a signal strength above 100
\* returned after a lookup that succeeded.
C19_Witness ==
    \E c \in DOMAIN invocations :
        /\ invocations[c].pc = "done"
        /\ ~invocations[c].response.error
        /\ Gt(invocations[c].rawData.signal_strength, Num(100))
        /\ calibrationRows # {}
        /\ Len(rawTable) > 0
        /\ Len(processedTable) > 0

\* C19 witness of the failed lookup: the same store, the lookup failed.
C19_WitnessLookupFailed ==
    \E c \in DOMAIN invocations :
        /\ invocations[c].pc = "done"
        /\ invocations[c].response.error
        /\ Len(rawTable) > 0

----------------------------------------------------------------------------
(* Properties of the persisted records (checked under SeedSpec and         *)
(* StoreSpec)                                                              *)

\* C13: every row of sensor_processed_data references one raw reading and the
\* sensor: its raw_reading_id is the id of exactly one row of sensor_raw_data,
\* and that row has the same sensor_id. Stated for every writer of processed
\* rows; the rows of the seeding script break it.
C13_ProcessedRowReferencesItsRawReading ==
    \A i \in 1..Len(processedTable) :
        LET row == processedTable[i]
        IN  /\ row.raw_reading_id # NullId
            /\ SensorExists(row.sensor_id)
            /\ Cardinality({j \in 1..Len(rawTable) :
                               rawTable[j].id = row.raw_reading_id}) = 1
            /\ \A j \in 1..Len(rawTable) :
                   rawTable[j].id = row.raw_reading_id =>
                       rawTable[j].sensor_id = row.sensor_id

\* The rows of sensor_processed_data all carry the processing method
\* "moving_average".
PersistedAreTagged ==
    \A i \in 1..Len(processedTable) :
        processedTable[i].processing_method = "moving_average"

----------------------------------------------------------------------------
(* C21 .. C30                                                              *)

\* Whether |v - m| / sd > t for finite v, m and sd >= 0, with sd # 0, by
\* integer arithmetic.
ExceedsThreshold(v, m, sd, t) ==
    /\ sd.n # 0
    /\ IAbs(v.n * m.d - m.n * v.d) * sd.d > t * sd.n * v.d * m.d

\* isOutlier with threshold 3 agrees with ExceedsThreshold on every value, mean
\* and deviation a sample can have.
IsOutlierDecidesTheTest ==
    \A v \in StatValues, m \in StatValues, sd \in {x \in StatValues : x.n >= 0} :
        (sd.n # 0 \/ v = m) =>
            isOutlier(v, m, sd, Num(3)) = ExceedsThreshold(v, m, sd, 3)

\* C21: the outlier flag of a produced reading is true exactly when the
\* standard deviation of the sample [smoothed depth, raw depth] is not 0 and
\* |raw depth - mean| / deviation > 3, the mean and the deviation being those of
\* that two-element sample; and isOutlier decides exactly that test for any
\* value, mean and deviation a sample can have (a deviation of 0 only with the
\* value equal to the mean).
C21_FlagIsTwoPointZScoreTest ==
    /\ \A c \in Done :
           LET inv == invocations[c]
               pair == <<inv.filteredDepth, inv.rawData.raw_depth>>
           IN  /\ inv.mean = ArithmeticMean(pair)
               /\ inv.stdDev = Sqrt(PopulationVariance(pair))
               /\ inv.result.is_outlier =
                      ExceedsThreshold(inv.rawData.raw_depth, inv.mean, inv.stdDev, 3)
    /\ IsOutlierDecidesTheTest

\* C21 witness: a reading of raw depth 1000 was processed under the calibration
\* offset 1, scale 2: the sample is [1000, 1000], not the calibrated 2001, the
\* deviation 0 and the reading not flagged.
C21_Witness ==
    \E c \in Done :
        /\ invocations[c].rawData.raw_depth = Num(1000)
        /\ invocations[c].calibration.scale_factor = Num(2)
        /\ invocations[c].result.depth = Num(2001)
        /\ invocations[c].mean = Num(1000)
        /\ invocations[c].stdDev = Num(0)
        /\ invocations[c].result.is_outlier = FALSE

\* Whether the invocation of caller c has returned for a raw depth of 1000
\* after five collected readings of raw depth 10 of the same sensor.
SpikeReturned(c) ==
    /\ invocations[c].pc = "done"
    /\ invocations[c].rawData.raw_depth = Num(1000)
    /\ Len(returned) >= 5
    /\ \A i \in (Len(returned) - 4)..Len(returned) :
           /\ returned[i].rawData.raw_depth = Num(10)
           /\ returned[i].sensorId = invocations[c].sensorId

\* C22: in the spike scenario the smoothed depth used for the sixth reading is
\* approximately 10 (within 1 of it), and the sample of the outlier test has
\* mean 505 and standard deviation 495.
C22_SpikeSampleIsTenAndThousand ==
    \A c \in DOMAIN invocations :
        SpikeReturned(c) =>
            /\ Le(Abs(Sub(invocations[c].filteredDepth, Num(10))), Num(1))
            /\ invocations[c].mean = Num(505)
            /\ invocations[c].stdDev = Num(495)

\* A window-5 filter that was fed 10 five times returns 208 for 1000.
KeptFilterSmoothsSpikeTo208 ==
    process(Fed(MovingAverageFilter(5), [i \in 1..5 |-> Num(10)]), Num(1000)).result
        = Num(208)

\* C22 as amended: in the spike scenario the depth filter of the sixth
\* invocation is fresh, so the smoothed depth is the raw depth 1000, the sample
\* of the outlier test is [1000, 1000] with mean 1000 and standard deviation 0,
\* and the reading is not flagged; a window-5 filter kept over the six readings
\* would smooth the sixth to 208, not to 10.
C22_SpikeSampleIsThousandTwice ==
    /\ \A c \in DOMAIN invocations :
           SpikeReturned(c) =>
               /\ invocations[c].filteredDepth = Num(1000)
               /\ invocations[c].depthFilter.values = <<Num(1000)>>
               /\ invocations[c].mean = Num(1000)
               /\ invocations[c].stdDev = Num(0)
               /\ invocations[c].result.is_outlier = FALSE
    /\ KeptFilterSmoothsSpikeTo208

\* C22 witness: five readings of raw depth 10 were collected and the invocation
\* for raw depth 1000 has returned.
C22_Witness ==
    /\ Len(returned) = 5
    /\ \E c \in DOMAIN invocations : SpikeReturned(c)

\* For every smoothed value s and raw value r, the statistics of [s, r] give r
\* a z-score of exactly 1 when s # r and an undefined one (0 / 0) when s = r,
\* and isOutlier with threshold 3 does not flag r.
TwoPointZScoreIsOneOrUndefined ==
    \A s \in StatValues, r \in StatValues :
        LET stats == calculateStats(<<s, r>>)
            z == Abs(Div(Sub(r, stats.mean), stats.stdDev))
        IN  /\ z = IF s = r THEN NaN ELSE Num(1)
            /\ ~isOutlier(r, stats.mean, stats.stdDev, Num(3))

\* C23: the outlier flag is false for every reading: no sequence of
\* processSensorData calls returns a reading with is_outlier true, and for any
\* smoothed value s and raw value r the z-score of r within [s, r] is 1 or
\* undefined, never above 3.
C23_NeverFlagged ==
    /\ \A k \in 1..Len(returned) : returned[k].result.is_outlier = FALSE
    /\ \A c \in DOMAIN invocations :
           invocations[c].pc = "done" => invocations[c].result.is_outlier = FALSE
    /\ TwoPointZScoreIsOneOrUndefined

\* C23 witness: a spike, a stable reading and a spike again were collected, the
\* last under a calibration other than the first's, none flagged.
C23_Witness ==
    /\ Len(returned) >= 3
    /\ returned[1].rawData = SpikeReading
    /\ returned[2].rawData = StableReading
    /\ returned[3].rawData = SpikeReading
    /\ returned[3].calibration # returned[1].calibration
    /\ \A k \in 1..3 : returned[k].result.is_outlier = FALSE

\* Whether reading a, returned by processSensorData, and record b, built by
\* processRawData, agree on the six fields of a processed reading.
SameReading(a, b) ==
    /\ a.depth = b.depth
    /\ a.turbidity = b.turbidity
    /\ a.temperature = b.temperature
    /\ a.sediment_level = b.sediment_level
    /\ a.quality_score = b.quality_score
    /\ a.is_outlier = b.is_outlier

\* processSensorData and processRawData agree on every raw reading under every
\* calibration the lookup can resolve to.
AgreeOnEveryInput ==
    \A rawData \in RawReadings, response \in Responses :
        SameReading(Resume([Idle EXCEPT !.rawData = rawData], response).result,
                    processRawData(rawData, Calibration(response)))

\* C24: for every raw reading and every calibration, processSensorData and the
\* seeding script's processRawData produce the same depth, turbidity,
\* temperature, sediment level, quality score and outlier flag, also when the
\* reading is one of a sequence processed for the same sensor.
C24_SeedingPathIsEquivalent ==
    /\ \A k \in 1..Len(returned) :
           SameReading(returned[k].result,
                       processRawData(returned[k].rawData, returned[k].calibration))
    /\ \A c \in DOMAIN invocations :
           invocations[c].pc = "done" =>
               SameReading(invocations[c].result,
                           processRawData(invocations[c].rawData,
                                          invocations[c].calibration))
    /\ AgreeOnEveryInput

\* C24 witness: a stable reading and then a spike were collected, the spike
\* under the calibration offset 1, scale 2; its depth is 2001 on both paths.
C24_Witness ==
    /\ Len(returned) >= 2
    /\ returned[1].rawData = StableReading
    /\ returned[2].rawData = SpikeReading
    /\ returned[2].calibration = SessionCalibration
    /\ returned[2].result.depth = Num(2001)
    /\ processRawData(SpikeReading, SessionCalibration).depth = Num(2001)

----------------------------------------------------------------------------
(* Properties of the lookup over rows of several parameters (checked under *)
(* ParameterSpec)                                                          *)

\* The offset and scale of a calibration row.
ValuesOf(row) == [offset_value |-> row.offset_value, scale_factor |-> row.scale_factor]

\* C25: a lookup that succeeds resolves to a most recently created row of the
\* sensor without regard to the row's parameter: when the one newest row of the
\* sensor is for a parameter other than "depth", its offset and scale are the
\* calibration of the depth, and an older "depth" row is ignored.
C25_ParameterIsIgnored ==
    [][\A c \in DOMAIN invocations :
          (invocations[c].pc = "await" /\ invocations'[c].pc = "done"
             /\ ~invocations'[c].response.error) =>
              LET mine == RowsOf(calibrationRows, invocations[c].sensorId)
                  depth == invocations[c].rawData.raw_depth
              IN  /\ mine # {} =>
                         \E r \in mine :
                             /\ \A y \in mine : y.created_at <= r.created_at
                             /\ invocations'[c].calibration = ValuesOf(r)
                  /\ \A r \in mine :
                         (/\ r.parameter # "depth"
                          /\ \A y \in mine \ {r} : y.created_at < r.created_at) =>
                             /\ invocations'[c].calibration = ValuesOf(r)
                             /\ invocations'[c].result.depth =
                                    ScaleAndOffset(depth, r.scale_factor, r.offset_value)]_vars

\* C25 witness: the store holds a "depth" row of a sensor and a newer
\* "turbidity" row of other values; a lookup for the sensor resolved to the
\* "turbidity" row and the depth was calibrated with it.
C25_Witness ==
    \E c \in DOMAIN invocations :
        /\ invocations[c].pc = "done"
        /\ ~invocations[c].response.error
        /\ Len(invocations[c].response.data) = 1
        /\ LET r == invocations[c].response.data[1]
           IN  /\ r.parameter = "turbidity"
               /\ invocations[c].calibration = ValuesOf(r)
               /\ invocations[c].result.depth =
                      ScaleAndOffset(invocations[c].rawData.raw_depth, r.scale_factor,
                                     r.offset_value)
               /\ \E older \in RowsOf(calibrationRows, invocations[c].sensorId) :
                      /\ older.parameter = "depth"
                      /\ older.created_at < r.created_at
                      /\ ValuesOf(older) # ValuesOf(r)

----------------------------------------------------------------------------
(* Properties of storeSensorData (checked under StoreSpec)                 *)

\* The rows of sensor_processed_data that reference the raw row of identity id.
ProcessedOf(table, id) == {i \in 1..Len(table) : table[i].raw_reading_id = id}

\* Whether `row` is a row of sensor_raw_data in `table`.
IsRawRow(table, row) == \E j \in 1..Len(table) : table[j] = row

\* C26: storeSensorData inserts the raw record first and the processed record
\* only after the raw insert succeeded, with the id the store gave the raw row.
\* When the raw insert fails it throws and writes nothing; when the processed
\* insert fails it throws and the raw row stays, with no processed record. A raw
\* row has at most one processed record.
C26_RawFirstAndNoRollback ==
    /\ [](\A j \in 1..Len(rawTable) :
              Cardinality(ProcessedOf(processedTable, rawTable[j].id)) <= 1)
    /\ [][\A c \in DOMAIN stores :
             /\ rawTable' # rawTable =>
                    /\ stores[c].pc = "await_raw"
                    /\ stores'[c].pc = "await_processed"
                    /\ processedTable' = processedTable
                    /\ rawTable' = Append(rawTable, stores'[c].rawDataRecord)
                    /\ ~\E j \in 1..Len(rawTable) :
                           rawTable[j].id = stores'[c].rawDataRecord.id
             /\ processedTable' # processedTable =>
                    /\ stores[c].pc = "await_processed"
                    /\ stores'[c].outcome = "fulfilled"
                    /\ rawTable' = rawTable
                    /\ IsRawRow(rawTable, stores[c].rawDataRecord)
                    /\ Len(processedTable') = Len(processedTable) + 1
                    /\ SubSeq(processedTable', 1, Len(processedTable)) = processedTable
                    /\ processedTable'[Len(processedTable')].raw_reading_id =
                           stores[c].rawDataRecord.id
             /\ (stores[c].pc = "await_raw" /\ stores'[c].pc = "done") =>
                    /\ stores'[c].outcome = "rejected"
                    /\ rawTable' = rawTable
                    /\ processedTable' = processedTable
             /\ (stores[c].pc = "await_processed" /\ stores'[c].outcome = "rejected") =>
                    /\ rawTable' = rawTable
                    /\ processedTable' = processedTable
                    /\ IsRawRow(rawTable', stores[c].rawDataRecord)
                    /\ ProcessedOf(processedTable', stores[c].rawDataRecord.id) = {}]_vars

\* C26 witness: one reading was stored with both records; for a second one the
\* processed insert failed and storeSensorData threw: its raw row is in the
\* store with no processed record.
C26_Witness ==
    \E c \in DOMAIN stores :
        /\ stores[c].pc = "done"
        /\ stores[c].error = "processedError"
        /\ Len(rawTable) = 2
        /\ rawTable[2] = stores[c].rawDataRecord
        /\ ProcessedOf(processedTable, rawTable[2].id) = {}
        /\ Cardinality(ProcessedOf(processedTable, rawTable[1].id)) = 1

----------------------------------------------------------------------------
(* Properties of the seeding script (checked under SeedSpec)               *)

\* The time the loop of the location of sensor id starts at: seven days before
\* its calibration row was created.
SeedStartTime(id) ==
    (CHOOSE row \in calibrationRows : row.sensor_id = id).created_at - SevenDays

\* The rows of `table` are the readings of one location after the other, each
\* location's in steps of 30 minutes from its start time, none missing and
\* none twice.
InStepsFromStart(table) ==
    \A i \in 1..Len(table) :
        IF i = 1 \/ table[i].sensor_id # table[IF i = 1 THEN 1 ELSE i - 1].sensor_id
        THEN /\ table[i].created_at = SeedStartTime(table[i].sensor_id)
             /\ \A j \in 1..(i - 1) : table[j].sensor_id # table[i].sensor_id
        ELSE table[i].created_at = table[i - 1].created_at + 1

\* The last row of `table` for the sensor id is the reading of time t.
EndsAt(table, id, t) ==
    \E i \in 1..Len(table) :
        /\ table[i].sensor_id = id
        /\ table[i].created_at = t
        /\ \A j \in (i + 1)..Len(table) : table[j].sensor_id # id

\* The records of a batch as the store's rows, without the identities.
Inserted(table, from, batch) ==
    /\ Len(table) = from + Len(batch)
    /\ \A i \in 1..Len(batch) :
           /\ table[from + i].created_at = batch[i].created_at
           /\ table[from + i].sensor_id = batch[i].sensor_id
           /\ table[from + i].id = from + i

\* C27, the states: both batches have the same length, at most 100; the tables
\* hold the readings in steps of 30 minutes, none missing and none twice, the
\* processed table never ahead of the raw one; and when the run completes
\* without error each location's readings, the last partial batch included,
\* are in both tables, up to the reading the loop generated last.
SeedBatchesAndTables ==
    /\ Len(seed.rawDataBatch) = Len(seed.processedDataBatch)
    /\ Len(seed.rawDataBatch) <= batchSize
    /\ InStepsFromStart(rawTable)
    /\ InStepsFromStart(processedTable)
    /\ Len(processedTable) <= Len(rawTable)
    /\ \A i \in 1..Len(processedTable) :
           /\ processedTable[i].sensor_id = rawTable[i].sensor_id
           /\ processedTable[i].created_at = rawTable[i].created_at
    /\ seed.outcome = "completed" =>
           /\ Len(processedTable) = Len(rawTable)
           /\ \A k \in 1..Len(seed.locations) :
                  \E t \in (SeedStartTime(seed.locations[k].id) + SevenDays - 1)..now :
                      EndsAt(rawTable, seed.locations[k].id, t)
           /\ EndsAt(rawTable, seed.locations[Len(seed.locations)].id,
                     seed.currentTime - 1)

\* C27, the steps: a flush inserts the raw batch, then the processed batch, and
\* the batches that follow hold later readings only; an error ends the run, and
\* nothing is inserted after it.
SeedFlushSteps ==
    /\ rawTable' # rawTable =>
           /\ seed.pc \in {"await_raw_batch", "await_final_raw"}
           /\ Len(processedTable) = Len(rawTable)
           /\ Inserted(rawTable', Len(rawTable), seed.rawDataBatch)
           /\ processedTable' = processedTable
           /\ seed'.pc \in {"await_processed_batch", "await_final_processed"}
    /\ processedTable' # processedTable =>
           /\ seed.pc \in {"await_processed_batch", "await_final_processed"}
           /\ Inserted(processedTable', Len(processedTable), seed.processedDataBatch)
           /\ Len(processedTable') = Len(rawTable)
           /\ rawTable' = rawTable
           /\ \A i \in 1..Len(seed'.rawDataBatch), j \in 1..Len(seed.rawDataBatch) :
                  (seed'.index = seed.index /\ seed'.pc # "done") =>
                      seed'.rawDataBatch[i].created_at > seed.rawDataBatch[j].created_at
    /\ (seed.pc # "done" /\ seed'.outcome = "exit1") =>
           /\ rawTable' = rawTable
           /\ processedTable' = processedTable
    /\ seed.pc = "done" =>
           /\ rawTable' = rawTable
           /\ processedTable' = processedTable
           /\ seed' = seed

\* C27: in seedSensorData the two batches have equal length, at most 100; each
\* flush inserts the raw batch before the processed batch and the batches are
\* emptied; a run that completes without error has inserted every generated
\* reading exactly once in each table, the final partial batch included; and
\* an insert error stops the run, so that no later batch is inserted.
C27_BatchesAreFlushedOnce ==
    []SeedBatchesAndTables /\ [][SeedFlushSteps]_vars

\* C27 witness: the run completed for two locations, each of more than seven
\* days of readings, with the final partial batches inserted.
C27_Witness ==
    /\ seed.outcome = "completed"
    /\ Len(seed.locations) = 2
    /\ Len(rawTable) > 2 * SevenDays
    /\ Len(rawTable) % batchSize # 0
    /\ Len(processedTable) = Len(rawTable)

\* The states in which the script is in the pass of a location.
InPass ==
    seed.pc \in {"await_calibration", "await_raw_batch", "await_processed_batch",
                 "await_final_raw", "await_final_processed"}

\* C28, the steps. A step that runs the loop, after the calibration insert or
\* after a flush within the loop, starts at seven days before now or at the
\* time after the flushed reading, advances the time by 30 minutes with each
\* reading it pushes, and leaves the loop only when the time has reached the
\* clock. The final flush is followed by the next location, or by the end of
\* the run after the last one.
SeedLoopSteps ==
    /\ (/\ seed.pc \in {"await_calibration", "await_processed_batch"}
        /\ seed' # seed
        /\ seed'.outcome # "exit1") =>
           LET start == IF seed.pc = "await_calibration" THEN now - SevenDays
                        ELSE seed.currentTime + 1
               pushed == Len(seed'.rawDataBatch)
           IN  /\ start > seed.currentTime \/ seed.pc = "await_calibration"
               /\ \A i \in 1..pushed :
                      seed'.rawDataBatch[i].created_at = start + i - 1
               /\ IF seed'.pc = "await_raw_batch"
                  THEN /\ seed'.currentTime = start + pushed - 1
                       /\ seed'.currentTime < now
                       /\ pushed = batchSize
                  ELSE /\ seed'.currentTime = start + pushed
                       /\ seed'.currentTime >= now
                       /\ pushed < batchSize
                       /\ pushed > 0 => seed'.pc = "await_final_raw"
    /\ (/\ \/ seed.pc = "await_final_processed"
           \/ seed.pc \in {"await_calibration", "await_processed_batch"}
              /\ seed'.pc \notin {"await_raw_batch", "await_final_raw"}
        /\ seed' # seed
        /\ seed'.outcome # "exit1") =>
           \/ /\ seed.index < Len(seed.locations)
              /\ seed'.index = seed.index + 1
              /\ seed'.pc = "await_calibration"
           \/ /\ seed.index = Len(seed.locations)
              /\ seed'.outcome = "completed"

\* C28: the loop of seedSensorData terminates for every location: the time
\* starts seven days in the past and advances by 30 minutes with each
\* iteration until it reaches the clock, which moves on more slowly; then the
\* remaining batch is flushed and the next location follows, so that the pass
\* of every location ends and the script ends.
C28_LoopTerminates ==
    /\ [][SeedLoopSteps]_vars
    /\ \A k \in 1..Len(Locations) :
           (InPass /\ seed.index = k) ~> (seed.pc = "done" \/ seed.index > k)
    /\ <>(seed.pc = "done")

\* C28 witness: the second location's pass has begun after the first one's loop
\* ran past the time it was started at, the clock having moved on meanwhile.
C28_Witness ==
    /\ seed.index = 2
    /\ InPass
    /\ now > 0
    /\ Len(rawTable) > SevenDays
    /\ EndsAt(rawTable, 1, SeedStartTime(1) + SevenDays)

----------------------------------------------------------------------------
(* Properties of the dashboard (checked under DashboardSpec)               *)

\* The reading the dashboard displays.
Displayed == currentReadings(dashboard.realtimeData, latestReadings(dashboard))

\* A step in which the callback of channel i is handed the channel's next
\* event.
Delivers(i) ==
    /\ i \in 1..Len(channels)
    /\ channels[i].pending # <<>>
    /\ channels'[i].pending = Tail(channels[i].pending)

\* The realtime record is displayed whenever there is one, the result of the
\* latest query only while there is none.
RealtimeRecordIsDisplayed ==
    /\ dashboard.realtimeData # <<>> => Displayed = dashboard.realtimeData
    /\ dashboard.realtimeData = <<>> => Displayed = latestReadings(dashboard)

\* The realtime record is set by every record the mounted dashboard receives,
\* is changed by nothing else and is never cleared.
RealtimeRecordIsKept ==
    /\ dashboard.realtimeData # <<>> => dashboard'.realtimeData # <<>>
    /\ dashboard'.realtimeData # dashboard.realtimeData =>
           \E i \in 1..Len(channels) :
               Delivers(i) /\ dashboard'.realtimeData = <<Head(channels[i].pending)>>
    /\ \A i \in 1..Len(channels) :
           Delivers(i) /\ dashboard.mounted = "yes" =>
               dashboard'.realtimeData = <<Head(channels[i].pending)>>

\* C30: once the dashboard has received a realtime record, the last one
\* received is the displayed reading from then on: neither a refetch of the
\* latest reading, nor a change of the subscribed sensor, nor the switch to
\* raw data replaces or clears it, and the result of the latest query is
\* displayed only while no realtime record has been received.
C30_RealtimeRecordStaysDisplayed ==
    []RealtimeRecordIsDisplayed /\ [][RealtimeRecordIsKept]_vars

\* The dashboard shows raw data and is subscribed to one sensor, its latest
\* query holds a row of that sensor, and it still displays the realtime
\* record of another sensor.
C30_Witness ==
    /\ dashboard.mounted = "yes"
    /\ dashboard.showRawData
    /\ dashboard.realtimeData # <<>>
    /\ latestReadings(dashboard) # <<>>
    /\ dashboard.sensorId = SensorIdOf(latestReadings(dashboard))
    /\ dashboard.sensorId # SensorIdOf(dashboard.realtimeData)
    /\ Displayed = dashboard.realtimeData

\* The subscriptions not yet unsubscribed.
Active == {i \in 1..Len(channels) : channels[i].state \in {"joining", "joined"}}

\* The dashboard holds at most one subscription that is not unsubscribed.
AtMostOneActive == Cardinality(Active) <= 1

\* When a subscription is set up every earlier one is unsubscribed, and when
\* the view unmounts every one is.
UnsubscribedBeforeTheNext ==
    /\ Len(channels') > Len(channels) => Active' = {Len(channels')}
    /\ dashboard.mounted = "yes" /\ dashboard'.mounted = "gone" => Active' = {}

\* The callback is handed only inserted rows of sensor_processed_data of the
\* sensor of its subscription.
CallbackOnlyForItsSensor ==
    \A i \in 1..Len(channels) :
        Delivers(i) =>
            /\ \E k \in 1..Len(processedTable) :
                   processedTable[k] = Head(channels[i].pending)
            /\ Head(channels[i].pending).sensor_id = channels[i].sensorId

\* The callback is not invoked after the function setupRealtimeSubscription
\* returned has been called.
NoCallbackAfterUnsubscribe ==
    \A i \in 1..Len(channels) : Delivers(i) => i \in Active

\* The callback is not invoked after the server answered the leave.
NoCallbackAfterClosed ==
    \A i \in 1..Len(channels) : Delivers(i) => channels[i].state # "closed"

\* C29: the dashboard holds at most one active realtime subscription; on a
\* change of the observed sensor and on unmount the previous subscription is
\* unsubscribed before a new one is set up; the callback is invoked only for
\* inserted rows of sensor_processed_data of the subscribed sensor, and never
\* after the function returned by setupRealtimeSubscription has been called.
C29_OneSubscriptionAndNoLateCallback ==
    /\ []AtMostOneActive
    /\ [][UnsubscribedBeforeTheNext]_vars
    /\ [][CallbackOnlyForItsSensor]_vars
    /\ [][NoCallbackAfterUnsubscribe]_vars

\* What does hold of the subscription: all of the above with the callback
\* silent only once the server has answered the leave.
C29_HoldsUpToTheAnswerOfTheLeave ==
    /\ []AtMostOneActive
    /\ [][UnsubscribedBeforeTheNext]_vars
    /\ [][CallbackOnlyForItsSensor]_vars
    /\ [][NoCallbackAfterClosed]_vars

====
